---- MODULE Spec2Model ----
(***************************************************************************)
(* Model of the reel pipeline of Fakhar27/Ad_generator:                    *)
(*   - PexelsClient.search_portrait_videos and its helpers                 *)
(*     (src/pexels_client.py): keyword loop, candidate scoring and         *)
(*     selection, file-variant selection, fallback, truncation;            *)
(*   - VideoAssembler.create_final_reel and its helpers                    *)
(*     (src/video_assembler.py): clip fitting, concatenation, audio,       *)
(*     word-level captions, export.                                        *)
(* Text is modelled as sequences of one-character strings so that          *)
(* lower-casing, trimming and substring search are computed, not assumed.  *)
(***************************************************************************)
EXTENDS Integers, Sequences, FiniteSets, TLC

VARIABLES
    \* ---- PexelsClient.search_portrait_videos ----
    keywords,          \* the keyword list passed in
    pc,                \* position in search_portrait_videos
    kwIndex,           \* 1-based index of the next keyword of the for loop
    video_segments,    \* the list built by the keyword loop (then extended)
    used_video_ids,    \* the set of ids already chosen in this call
    fbIndex,           \* i of "for i in range(5)" in _get_fallback_videos
    fallback_videos,   \* the list built by _get_fallback_videos
    fallbackRan,       \* whether _get_fallback_videos was called
    result,            \* the value returned (video_segments[:5])
    search_target,     \* the target_duration argument, in seconds
    requests,          \* the duration windows of the search requests issued
    \* ---- VideoAssembler.create_final_reel ----
    apc,               \* position in create_final_reel
    video_files,       \* native durations of the downloaded clips, in ticks
    total_duration,    \* transcript_data['total_duration'], in ticks
    word_level,        \* transcript_data['word_level']
    processed_clips,   \* the clips _process_video_files returns
    concatenated,      \* duration (numerator) of the concatenated video
    subtitle_clips,    \* the caption clips composited over the video
    buildFails,        \* indices of the words whose TextClip fails to build
    stepsRun,          \* the create_final_reel steps that have run to completion
    outputWritten,     \* whether write_videofile wrote the output file
    narration,         \* duration of the original audio, in the units of concatenated
    background,        \* [present, duration]: the background music file
    audio_duration,    \* duration of the audio attached to the video
    \* ---- a call of PexelsClient._select_best_business_video on its own ----
    sel,               \* [pc, videos, used_video_ids, scored, picked]
    \* ---- a call of KeywordExtractor.extract_keywords on its own ----
    ext,               \* [pc, response, keywords]
    \* ---- a call of PexelsClient._generate_dynamic_query on its own ----
    qry,               \* [pc, keyword, query]
    pgen,              \* [pc, sequence, target, result]: one call of _validate_and_clean_prompts
    fsel,              \* [pc, files, chosen]: one call of _select_best_video_file
    \* ---- ReelGenerator / T2VReelGenerator: construction and generate_reel ----
    orchestrator,      \* "stock" (ReelGenerator) or "t2v" (T2VReelGenerator)
    environ,           \* the environment variables that are set
    run_target,        \* transcript_data['total_duration'] of the run, in seconds
    rpc,               \* position in __init__ / generate_reel
    stageLog,          \* the stage events so far: <<stage, "start" | "done" | "raised">>
    temp_dir,          \* VideoAssembler.temp_dir: "none", "exists" or "removed"
    found_segments,    \* what the selection stage returned (segments or prompts)
    dlOutcome,         \* outcome of each download (generation) done so far
    downloaded_files,  \* the paths the download (generation) stage returns
    temp_video_files,  \* the client's tracking list of temporary video files
    whisper_temp_files,\* WhisperProcessor.temp_files
    disk,              \* the temporary files that exist on disk
    attempted,         \* the files the cleanup has tried to remove
    outcome,           \* how generate_reel ended: [kind, value]
    outputExported     \* whether the final video was exported

searchVars == <<keywords, pc, kwIndex, video_segments, used_video_ids,
                fbIndex, fallback_videos, fallbackRan, result, search_target, requests>>
assemblyVars == <<apc, video_files, total_duration, word_level, processed_clips,
                  concatenated, subtitle_clips, buildFails, stepsRun, outputWritten,
                  narration, background, audio_duration>>
callVars == <<sel, ext, qry, fsel, pgen>>
runVars == <<orchestrator, environ, run_target, rpc, stageLog, temp_dir, found_segments, dlOutcome,
             downloaded_files, temp_video_files, whisper_temp_files, disk,
             attempted, outcome, outputExported>>
vars == <<searchVars, assemblyVars, callVars, runVars>>

-----------------------------------------------------------------------------
(* Bounds of the model *)

MaxKeywords == 6     \* longest keyword list
NumVideos == 3       \* size of the modelled video index (ids 1..NumVideos)
MaxResults == 2      \* longest candidate list one search returns
NumWideVideos == 7   \* size of the index when every search finds fresh videos
MaxCandidates == 4   \* longest candidate list handed to a selection call

-----------------------------------------------------------------------------
(* Generic helpers *)

Min(a, b) == IF a < b THEN a ELSE b

Range(s) == { s[k] : k \in 1..Len(s) }

\* s[:n] of Python
Take(s, n) == SubSeq(s, 1, Min(n, Len(s)))

\* the sequences over S of length at most n
RECURSIVE SeqsUpTo(_, _)
SeqsUpTo(S, n) ==
    IF n = 0 THEN { <<>> }
    ELSE LET shorter == SeqsUpTo(S, n - 1)
         IN  shorter \cup { Append(s, x) : s \in { t \in shorter : Len(t) = n - 1 },
                                           x \in S }

\* str.lower() on a character sequence
UpperChars == <<"A","B","C","D","E","F","G","H","I","J","K","L","M","N","O","P","Q","R","S","T","U","V","W","X","Y","Z">>
LowerChars == <<"a","b","c","d","e","f","g","h","i","j","k","l","m","n","o","p","q","r","s","t","u","v","w","x","y","z">>

LowerChar(c) ==
    IF \E k \in 1..Len(UpperChars) : UpperChars[k] = c
    THEN LowerChars[CHOOSE k \in 1..Len(UpperChars) : UpperChars[k] = c]
    ELSE c

Lower(text) == [k \in 1..Len(text) |-> LowerChar(text[k])]

\* "pat in text" of Python: pat occurs as a contiguous substring of text
Contains(text, pat) ==
    \E s \in 0..(Len(text) - Len(pat)) :
        \A k \in 1..Len(pat) : text[s + k] = pat[k]

\* number of entries of the term list that occur in text
RECURSIVE CountHits(_, _)
CountHits(terms, text) ==
    IF terms = <<>> THEN 0
    ELSE (IF Contains(text, Head(terms)) THEN 1 ELSE 0) + CountHits(Tail(terms), text)

-----------------------------------------------------------------------------
(* The video index behind the search API: what data.get('videos') can hold *)

UrlPool ==
    << <<"/","v","i","d","e","o","/","o","f","f","i","c","e","-","d","e","s","k","/">>,
       <<"/","v","i","d","e","o","/","B","e","a","c","h","-","p","a","r","t","y","/">>,
       <<"/","v","i","d","e","o","/","c","i","t","y","/">>,
       <<"/","v","i","d","e","o","/","s","t","e","a","m","-","g","y","m","/">>,
       <<"/","v","i","d","e","o","/","t","e","a","m","/">> >>

UserPool ==
    << <<"A","n","n">>,
       <<"S","p","o","r","t","i","f","y">>,
       <<"M","e","e","t","i","n","g"," ","C","o">> >>

\* file variants: [width, height, quality, link]
FilesPool ==
    << << [width |-> 1080, height |-> 1920, quality |-> "hd", link |-> "p_hd"] >>,
       << [width |-> 1920, height |-> 1080, quality |-> "hd", link |-> "l_hd"],
          [width |-> 540,  height |-> 960,  quality |-> "sd", link |-> "p_sd"] >>,
       << [width |-> 640,  height |-> 360,  quality |-> "sd", link |-> "l_sd"],
          [width |-> 1920, height |-> 1080, quality |-> "sd", link |-> "l_big"],
          [width |-> 1280, height |-> 720,  quality |-> "hd", link |-> "l_hd"] >> >>

\* Video 1 has no file variant; every other video has at least one.
Video(id) ==
    [ id          |-> id,
      url         |-> UrlPool[(id % Len(UrlPool)) + 1],
      user        |-> UserPool[(id % Len(UserPool)) + 1],
      duration    |-> 6 + ((id * 4) % 7),
      video_files |-> IF id = 1 THEN <<>> ELSE FilesPool[(id % Len(FilesPool)) + 1] ]

VideoIds == 1..NumVideos
WideVideoIds == 1..NumWideVideos

\* candidate lists one search can return: up to MaxResults distinct videos of
\* the index, listed by ascending id (with at most TopCount candidates the
\* order of the list does not change which of them can be selected)
RECURSIVE IdLists(_, _)
IdLists(ids, n) ==
    IF n = 0 THEN { <<>> }
    ELSE LET shorter == IdLists(ids, n - 1)
         IN  shorter \cup
             { Append(s, id) : s \in { t \in shorter : Len(t) = n - 1 },
                               id \in ids }

ResultsOver(ids) ==
    { [k \in 1..Len(s) |-> Video(s[k])] :
        s \in { t \in IdLists(ids, MaxResults) :
                  \A a, b \in 1..Len(t) : a < b => t[a] < t[b] } }

SearchResults == ResultsOver(VideoIds)
WideResults == ResultsOver(WideVideoIds)

-----------------------------------------------------------------------------
(* PexelsClient._select_best_business_video *)

business_indicators ==
    << <<"o","f","f","i","c","e">>,
       <<"b","u","s","i","n","e","s","s">>,
       <<"c","o","r","p","o","r","a","t","e">>,
       <<"p","r","o","f","e","s","s","i","o","n","a","l">>,
       <<"m","e","e","t","i","n","g">>,
       <<"c","o","n","f","e","r","e","n","c","e">>,
       <<"e","x","e","c","u","t","i","v","e">>,
       <<"t","e","a","m">>,
       <<"w","o","r","k","p","l","a","c","e">>,
       <<"b","o","a","r","d","r","o","o","m">>,
       <<"p","r","e","s","e","n","t","a","t","i","o","n">>,
       <<"h","a","n","d","s","h","a","k","e">>,
       <<"s","u","i","t">>,
       <<"d","e","s","k">>,
       <<"c","o","m","p","u","t","e","r">>,
       <<"c","o","l","l","a","b","o","r","a","t","i","o","n">>,
       <<"s","t","r","a","t","e","g","y">>,
       <<"l","e","a","d","e","r","s","h","i","p">>,
       <<"e","n","t","r","e","p","r","e","n","e","u","r">> >>

avoid_keywords ==
    << <<"f","a","r","m">>,
       <<"a","g","r","i","c","u","l","t","u","r","e">>,
       <<"f","o","o","d">>,
       <<"k","i","t","c","h","e","n">>,
       <<"c","o","o","k","i","n","g">>,
       <<"r","e","c","i","p","e">>,
       <<"j","u","i","c","e">>,
       <<"d","r","i","n","k">>,
       <<"b","e","v","e","r","a","g","e">>,
       <<"f","r","u","i","t">>,
       <<"g","a","r","d","e","n">>,
       <<"p","l","a","n","t">>,
       <<"s","p","o","r","t">>,
       <<"f","i","t","n","e","s","s">>,
       <<"g","y","m">>,
       <<"w","o","r","k","o","u","t">>,
       <<"e","x","e","r","c","i","s","e">>,
       <<"o","u","t","d","o","o","r">>,
       <<"b","e","a","c","h">>,
       <<"v","a","c","a","t","i","o","n">>,
       <<"t","r","a","v","e","l">>,
       <<"p","a","r","t","y">>,
       <<"c","e","l","e","b","r","a","t","i","o","n">> >>

TopCount == 3        \* scored_videos[:3]
GoodDurationMin == 8
GoodDurationMax == 15

\* video_text = f"{video_url} {user_name}".lower()
VideoText(video) == Lower(video.url \o <<" ">> \o Lower(video.user))

\* faulty variant: the terms to avoid cost nothing
ScoreNoPenalty(video) ==
    2 * CountHits(business_indicators, VideoText(video))
    + (IF GoodDurationMin <= video.duration /\ video.duration <= GoodDurationMax
       THEN 1 ELSE 0)

Score(video) ==
    2 * CountHits(business_indicators, VideoText(video))
    - 3 * CountHits(avoid_keywords, VideoText(video))
    + (IF GoodDurationMin <= video.duration /\ video.duration <= GoodDurationMax
       THEN 1 ELSE 0)

\* candidates whose text and duration cover every case of the score: urls and
\* uploaders with positive terms, negative terms, both and none, and durations
\* just outside and just inside the good range
NumScoreVideos == 24   \* size of the scoring pool
MaxScored == 2         \* longest candidate list drawn from the scoring pool

DurationPool == <<7, 8, 15, 16>>
ScoreVideoIds == { 100 + i : i \in 1..NumScoreVideos }

ScoreVideo(id) ==
    [ id          |-> id,
      url         |-> UrlPool[(id % Len(UrlPool)) + 1],
      user        |-> UserPool[(id % Len(UserPool)) + 1],
      duration    |-> DurationPool[(id % Len(DurationPool)) + 1],
      video_files |-> FilesPool[1] ]

ScoreLists ==
    { [k \in 1..Len(s) |-> ScoreVideo(s[k])] :
        s \in { t \in IdLists(ScoreVideoIds, MaxScored) :
                  \A a, b \in 1..Len(t) : a < b => t[a] < t[b] } }

\* the scores of the modelled index and of the scoring pool, computed once
ScoreTable == [id \in VideoIds \cup WideVideoIds |-> Score(Video(id))]
ScorePoolTable == [id \in ScoreVideoIds |-> Score(ScoreVideo(id))]
ScoreOf(video) ==
    IF video.id \in ScoreVideoIds THEN ScorePoolTable[video.id]
    ELSE ScoreTable[video.id]

\* faulty variant: the used ids are not filtered out
AvailableVideosNoDedup(videos, used) == videos

\* available_videos: the candidates not yet used, or all of them when none is left
AvailableVideos(videos, used) ==
    LET unused == SelectSeq(videos, LAMBDA v : v.id \notin used)
    IN  IF unused = <<>> THEN videos ELSE unused

\* scored_videos.sort(key=score, reverse=True): stable, highest score first
RECURSIVE InsertByScore(_, _)
InsertByScore(sorted, v) ==
    IF sorted = <<>> THEN <<v>>
    ELSE IF ScoreOf(Head(sorted)) >= ScoreOf(v)
         THEN <<Head(sorted)>> \o InsertByScore(Tail(sorted), v)
         ELSE <<v>> \o sorted

\* faulty variant: the scored list is left in the order of the search result
SortByScoreNone(videos) == videos

RECURSIVE SortByScore(_)
SortByScore(videos) ==
    IF videos = <<>> THEN <<>>
    ELSE InsertByScore(SortByScore(SubSeq(videos, 1, Len(videos) - 1)),
                       videos[Len(videos)])

\* scored_videos before the sort: the score of every available video, in order
ScoredVideos(videos, used) ==
    LET available == AvailableVideos(videos, used)
    IN  [k \in 1..Len(available) |-> ScoreOf(available[k])]

\* the videos random.choice(top_videos) can return
SelectBestBusinessVideo(videos, used) ==
    Range(Take(SortByScore(AvailableVideos(videos, used)), TopCount))

-----------------------------------------------------------------------------
(* PexelsClient._select_best_video_file: <<>> models None *)

Area(f) == f.width * f.height

RECURSIVE InsertByArea(_, _)
InsertByArea(sorted, f) ==
    IF sorted = <<>> THEN <<f>>
    ELSE IF Area(Head(sorted)) >= Area(f)
         THEN <<Head(sorted)>> \o InsertByArea(Tail(sorted), f)
         ELSE <<f>> \o sorted

RECURSIVE SortByArea(_)
SortByArea(files) ==
    IF files = <<>> THEN <<>>
    ELSE InsertByArea(SortByArea(SubSeq(files, 1, Len(files) - 1)), files[Len(files)])

\* faulty variant: the 'hd' variants are looked for among all variants
SelectBestVideoFileHdFirst(video) ==
    LET files    == video.video_files
        hd_files == SelectSeq(files, LAMBDA f : f.quality = "hd")
        portrait == SelectSeq(files, LAMBDA f : f.height > f.width)
    IN  IF hd_files # <<>> THEN <<hd_files[1]>>
        ELSE IF portrait # <<>> THEN <<portrait[1]>>
        ELSE IF files # <<>> THEN <<SortByArea(files)[1]>>
        ELSE <<>>

SelectBestVideoFile(video) ==
    LET files    == video.video_files
        portrait == SelectSeq(files, LAMBDA f : f.height > f.width)
        chosen   == IF portrait = <<>> THEN SortByArea(files) ELSE portrait
        hd_files == SelectSeq(chosen, LAMBDA f : f.quality = "hd")
    IN  IF hd_files # <<>> THEN <<hd_files[1]>>
        ELSE IF chosen # <<>> THEN <<chosen[1]>>
        ELSE <<>>

\* faulty variant: width and height are those of the candidate's first variant
SegmentFirstVariantSize(keyword, video, video_file) ==
    [ keyword  |-> keyword,
      duration |-> video.duration,
      width    |-> video.video_files[1].width,
      height   |-> video.video_files[1].height,
      url      |-> video_file.link,
      quality  |-> video_file.quality,
      video_id |-> video.id ]

Segment(keyword, video, video_file) ==
    [ keyword  |-> keyword,
      duration |-> video.duration,
      width    |-> video_file.width,
      height   |-> video_file.height,
      url      |-> video_file.link,
      quality  |-> video_file.quality,
      video_id |-> video.id ]

-----------------------------------------------------------------------------
(* PexelsClient.search_portrait_videos and _get_fallback_videos *)

MinSegments == 3       \* if len(video_segments) < 3: fallback
MaxSegments == 5       \* return video_segments[:5]
FallbackAttempts == 5  \* for i in range(5)
FallbackLimit == 2     \* if len(fallback_videos) >= 2: break

KeywordList(n) == [k \in 1..n |-> "kw" \o ToString(k)]

\* f'fallback_{i+1}'
FallbackLabel(i) == "fallback_" \o ToString(i + 1)

\* faulty variant: the exception of one keyword is not caught
OnKeywordErrorPropagates == "raised"

\* where control goes when an exception reaches "except Exception" in the
\* keyword loop: "continue", i.e. on to the next keyword
OnKeywordError == "loop"

\* faulty variant: the final slice is left out
TruncateNone(segments) == segments

\* video_segments[:5]
Truncate(segments) == Take(segments, MaxSegments)

\* faulty variant: the threshold test is off by one
NeedsFallbackOffByOne(segments) == Len(segments) <= MinSegments

\* whether the fallback step is needed after the keyword loop
NeedsFallback(segments) == Len(segments) < MinSegments

\* faulty variant: the fallback segments are put in front
ExtendInFront(segments, more) == more \o segments

\* video_segments.extend(...)
Extend(segments, more) == segments \o more

\* whether _get_fallback_videos goes on to another attempt
FallbackContinues(i, found) == i < FallbackAttempts /\ Len(found) < FallbackLimit

MinSlot == 6              \* max(6, target_duration / len(keywords))
WindowSlack == 5          \* max_duration = int(duration_per_video) + 5
FallbackMinDuration == 8  \* _search_videos(query, min_duration=8, max_duration=12)
FallbackMaxDuration == 12
DemoTarget == 30          \* client.search_portrait_videos(keywords, target_duration=30)

\* faulty variant: the slot is not raised to its minimum of 6 seconds
DurationPerVideoNoMinimum(target, n) == [num |-> target, den |-> n]

\* duration_per_video = max(6, target_duration / len(keywords)), as a fraction
\* num / den of seconds (the argument 6 is kept unless the quotient exceeds it)
DurationPerVideo(target, n) ==
    IF target > MinSlot * n THEN [num |-> target, den |-> n]
    ELSE [num |-> MinSlot, den |-> 1]

\* int(x) of a non-negative fraction
IntPart(x) == x.num \div x.den

\* the window of the request of one keyword (lines 74-75) and of one fallback
\* attempt (line 312), as _search_videos puts it into params (lines 180-181)
KeywordRequest(target, n) ==
    [ kind         |-> "keyword",
      min_duration |-> IntPart(DurationPerVideo(target, n)),
      max_duration |-> IntPart(DurationPerVideo(target, n)) + WindowSlack ]

FallbackRequest ==
    [ kind         |-> "fallback",
      min_duration |-> FallbackMinDuration,
      max_duration |-> FallbackMaxDuration ]

NoBackground == [present |-> FALSE, duration |-> 0]

AssemblyIdle ==
    /\ apc = "idle"
    /\ video_files = <<>>
    /\ total_duration = 0
    /\ word_level = <<>>
    /\ processed_clips = <<>>
    /\ concatenated = 0
    /\ subtitle_clips = <<>>
    /\ buildFails = {}
    /\ stepsRun = {}
    /\ outputWritten = FALSE
    /\ narration = 0
    /\ background = NoBackground
    /\ audio_duration = 0

SearchIdle ==
    /\ keywords = <<>>
    /\ pc = "idle"
    /\ kwIndex = 1
    /\ video_segments = <<>>
    /\ used_video_ids = {}
    /\ fbIndex = 0
    /\ fallback_videos = <<>>
    /\ fallbackRan = FALSE
    /\ result = <<>>
    /\ search_target = 0
    /\ requests = <<>>

SelectIdle ==
    sel = [pc |-> "idle", videos |-> <<>>, used |-> {}, scored |-> <<>>, picked |-> <<>>]

PromptIdle == pgen = [pc |-> "idle", sequence |-> <<>>, target |-> 0, result |-> <<>>]

FileIdle == fsel = [pc |-> "idle", files |-> <<>>, chosen |-> <<>>]

ExtractIdle == ext = [pc |-> "idle", response |-> <<>>, keywords |-> <<>>]

QueryIdle == qry = [pc |-> "idle", keyword |-> <<>>, query |-> <<>>]

RunIdle ==
    /\ orchestrator = "stock"
    /\ environ = {}
    /\ run_target = 0
    /\ rpc = "idle"
    /\ stageLog = <<>>
    /\ temp_dir = "none"
    /\ found_segments = <<>>
    /\ dlOutcome = <<>>
    /\ downloaded_files = <<>>
    /\ temp_video_files = <<>>
    /\ whisper_temp_files = <<>>
    /\ disk = {}
    /\ attempted = {}
    /\ outcome = [kind |-> "none", value |-> "none"]
    /\ outputExported = FALSE

InitSearch ==
    /\ keywords \in { KeywordList(n) : n \in 0..MaxKeywords }
    /\ pc = "start"
    /\ kwIndex = 1
    /\ video_segments = <<>>
    /\ used_video_ids = {}
    /\ fbIndex = 0
    /\ fallback_videos = <<>>
    /\ fallbackRan = FALSE
    /\ result = <<>>
    /\ search_target = DemoTarget
    /\ requests = <<>>
    /\ AssemblyIdle
    /\ SelectIdle /\ ExtractIdle /\ QueryIdle /\ FileIdle /\ PromptIdle
    /\ RunIdle

\* line 64: target_duration / len(keywords) raises ZeroDivisionError on []
SearchStart ==
    /\ pc = "start"
    /\ pc' = IF Len(keywords) = 0 THEN "raised" ELSE "loop"
    /\ UNCHANGED <<keywords, kwIndex, video_segments, used_video_ids, fbIndex,
                   fallback_videos, fallbackRan, result>>
    /\ UNCHANGED <<search_target, requests>>
    /\ UNCHANGED <<assemblyVars, callVars, runVars>>

\* an exception inside the try block of the keyword loop (a malformed response,
\* a candidate without a key the code reads): logged, next keyword
KeywordRaises ==
    /\ pc = "loop" /\ kwIndex <= Len(keywords)
    /\ pc' = OnKeywordError
    /\ kwIndex' = kwIndex + 1
    /\ UNCHANGED <<keywords, video_segments, used_video_ids, fbIndex,
                   fallback_videos, fallbackRan, result>>
    /\ requests' = Append(requests, KeywordRequest(search_target, Len(keywords)))
    /\ UNCHANGED search_target
    /\ UNCHANGED <<assemblyVars, callVars, runVars>>

\* _search_videos returned []: no hit, or a RequestException caught inside it
KeywordNoVideos ==
    /\ pc = "loop" /\ kwIndex <= Len(keywords)
    /\ kwIndex' = kwIndex + 1
    /\ UNCHANGED <<keywords, pc, video_segments, used_video_ids, fbIndex,
                   fallback_videos, fallbackRan, result>>
    /\ requests' = Append(requests, KeywordRequest(search_target, Len(keywords)))
    /\ UNCHANGED search_target
    /\ UNCHANGED <<assemblyVars, callVars, runVars>>

\* _search_videos returned candidates: select one, select its file, emit
KeywordFound(videos) ==
    /\ pc = "loop" /\ kwIndex <= Len(keywords)
    /\ videos # <<>>
    /\ \E video \in SelectBestBusinessVideo(videos, used_video_ids) :
         LET video_file == SelectBestVideoFile(video)
         IN  IF video_file # <<>>
             THEN /\ video_segments' =
                        Append(video_segments,
                               Segment(keywords[kwIndex], video, video_file[1]))
                  /\ used_video_ids' = used_video_ids \cup {video.id}
             ELSE UNCHANGED <<video_segments, used_video_ids>>
    /\ kwIndex' = kwIndex + 1
    /\ UNCHANGED <<keywords, pc, fbIndex, fallback_videos, fallbackRan, result>>
    /\ requests' = Append(requests, KeywordRequest(search_target, Len(keywords)))
    /\ UNCHANGED search_target
    /\ UNCHANGED <<assemblyVars, callVars, runVars>>

\* after the for loop: fallback when fewer than 3 segments, else return
KeywordLoopEnd ==
    /\ pc = "loop" /\ kwIndex > Len(keywords)
    /\ IF NeedsFallback(video_segments)
       THEN /\ pc' = "fallback"
            /\ fallbackRan' = TRUE
            /\ UNCHANGED result
       ELSE /\ pc' = "done"
            /\ result' = Truncate(video_segments)
            /\ UNCHANGED fallbackRan
    /\ UNCHANGED <<keywords, kwIndex, video_segments, used_video_ids, fbIndex,
                   fallback_videos>>
    /\ UNCHANGED <<search_target, requests>>
    /\ UNCHANGED <<assemblyVars, callVars, runVars>>

FallbackRaises ==
    /\ pc = "fallback" /\ FallbackContinues(fbIndex, fallback_videos)
    /\ fbIndex' = fbIndex + 1
    /\ UNCHANGED <<keywords, pc, kwIndex, video_segments, used_video_ids,
                   fallback_videos, fallbackRan, result>>
    /\ requests' = Append(requests, FallbackRequest)
    /\ UNCHANGED search_target
    /\ UNCHANGED <<assemblyVars, callVars, runVars>>

FallbackNoVideos ==
    /\ pc = "fallback" /\ FallbackContinues(fbIndex, fallback_videos)
    /\ fbIndex' = fbIndex + 1
    /\ UNCHANGED <<keywords, pc, kwIndex, video_segments, used_video_ids,
                   fallback_videos, fallbackRan, result>>
    /\ requests' = Append(requests, FallbackRequest)
    /\ UNCHANGED search_target
    /\ UNCHANGED <<assemblyVars, callVars, runVars>>

\* video = random.choice(videos): any candidate, used or not
FallbackFound(videos) ==
    /\ pc = "fallback" /\ FallbackContinues(fbIndex, fallback_videos)
    /\ videos # <<>>
    /\ \E video \in Range(videos) :
         LET video_file == SelectBestVideoFile(video)
         IN  IF video_file # <<>>
             THEN fallback_videos' =
                      Append(fallback_videos,
                             Segment(FallbackLabel(fbIndex), video, video_file[1]))
             ELSE UNCHANGED fallback_videos
    /\ fbIndex' = fbIndex + 1
    /\ UNCHANGED <<keywords, pc, kwIndex, video_segments, used_video_ids,
                   fallbackRan, result>>
    /\ requests' = Append(requests, FallbackRequest)
    /\ UNCHANGED search_target
    /\ UNCHANGED <<assemblyVars, callVars, runVars>>

\* _get_fallback_videos returns; video_segments.extend(...); return [:5]
FallbackReturn ==
    /\ pc = "fallback" /\ ~FallbackContinues(fbIndex, fallback_videos)
    /\ video_segments' = Extend(video_segments, fallback_videos)
    /\ result' = Truncate(video_segments')
    /\ pc' = "done"
    /\ UNCHANGED <<keywords, kwIndex, used_video_ids, fbIndex, fallback_videos,
                   fallbackRan>>
    /\ UNCHANGED <<search_target, requests>>
    /\ UNCHANGED <<assemblyVars, callVars, runVars>>

NextSearch ==
    \/ SearchStart
    \/ KeywordRaises
    \/ KeywordNoVideos
    \/ \E videos \in SearchResults : KeywordFound(videos)
    \/ KeywordLoopEnd
    \/ FallbackRaises
    \/ FallbackNoVideos
    \/ \E videos \in SearchResults : FallbackFound(videos)
    \/ FallbackReturn

SpecSearch == InitSearch /\ [][NextSearch]_vars

\* the same call when every keyword search finds candidates that all have a
\* file variant, at least one of them not used yet in this call
AllHaveFiles(videos) == \A k \in 1..Len(videos) : videos[k].video_files # <<>>
HasUnused(videos, used) == \E k \in 1..Len(videos) : videos[k].id \notin used

KeywordFoundFresh ==
    \E videos \in WideResults :
        /\ AllHaveFiles(videos)
        /\ HasUnused(videos, used_video_ids)
        /\ KeywordFound(videos)

NextSearchAllFound ==
    \/ SearchStart
    \/ KeywordFoundFresh
    \/ KeywordLoopEnd
    \/ FallbackRaises
    \/ FallbackNoVideos
    \/ \E videos \in SearchResults : FallbackFound(videos)
    \/ FallbackReturn

SpecSearchAllFound == InitSearch /\ [][NextSearchAllFound]_vars

\* the same call for any target duration, against an index that holds one
\* video: a search finds it, finds nothing, or the iteration raises
MaxTarget == 36      \* longest target_duration, in seconds

InitWindow ==
    /\ keywords \in { KeywordList(n) : n \in 0..MaxKeywords }
    /\ pc = "start"
    /\ kwIndex = 1
    /\ video_segments = <<>>
    /\ used_video_ids = {}
    /\ fbIndex = 0
    /\ fallback_videos = <<>>
    /\ fallbackRan = FALSE
    /\ result = <<>>
    /\ search_target \in 0..MaxTarget
    /\ requests = <<>>
    /\ AssemblyIdle
    /\ SelectIdle /\ ExtractIdle /\ QueryIdle /\ FileIdle /\ PromptIdle
    /\ RunIdle

OnlyVideo == << Video(2) >>

NextWindow ==
    \/ SearchStart
    \/ KeywordRaises
    \/ KeywordNoVideos
    \/ KeywordFound(OnlyVideo)
    \/ KeywordLoopEnd
    \/ FallbackRaises
    \/ FallbackNoVideos
    \/ FallbackFound(OnlyVideo)
    \/ FallbackReturn

SpecWindow == InitWindow /\ [][NextWindow]_vars

-----------------------------------------------------------------------------
(* A call of _select_best_business_video over every candidate list and used set *)

CandidateLists == SeqsUpTo({ Video(id) : id \in VideoIds }, MaxCandidates)

InitSelect ==
    /\ sel \in [pc : {"call"}, videos : CandidateLists, used : SUBSET VideoIds,
                scored : { <<>> }, picked : { <<>> }]
    /\ ExtractIdle /\ QueryIdle /\ FileIdle /\ PromptIdle
    /\ SearchIdle
    /\ AssemblyIdle
    /\ RunIdle

\* on an empty list nothing is scored and videos[0] raises IndexError
SelectCall ==
    /\ sel.pc = "call"
    /\ IF sel.videos = <<>>
       THEN sel' = [sel EXCEPT !.pc = "raised"]
       ELSE \E video \in SelectBestBusinessVideo(sel.videos, sel.used) :
                sel' = [sel EXCEPT !.pc = "returned",
                                   !.scored = ScoredVideos(sel.videos, sel.used),
                                   !.picked = <<video>>]
    /\ UNCHANGED <<searchVars, assemblyVars, ext, qry, fsel, pgen, runVars>>

SpecSelect == InitSelect /\ [][SelectCall]_vars

\* one call on a list of candidates of the scoring pool, nothing used so far
InitScore ==
    /\ sel \in [pc : {"call"}, videos : ScoreLists, used : { {} },
                scored : { <<>> }, picked : { <<>> }]
    /\ ExtractIdle /\ QueryIdle /\ FileIdle /\ PromptIdle
    /\ SearchIdle
    /\ AssemblyIdle
    /\ RunIdle

SpecScore == InitScore /\ [][SelectCall]_vars

-----------------------------------------------------------------------------
(* One call of PexelsClient._select_best_video_file *)

MaxFiles == 3        \* longest video_files list of one candidate

\* the file variants a candidate can offer: portrait and landscape, 'hd' and
\* 'sd', the largest of them a landscape one
FileVariants ==
    { [width |-> 1080, height |-> 1920, quality |-> "hd", link |-> "p_hd"],
      [width |-> 540,  height |-> 960,  quality |-> "sd", link |-> "p_sd"],
      [width |-> 1920, height |-> 1080, quality |-> "hd", link |-> "l_hd"],
      [width |-> 640,  height |-> 360,  quality |-> "sd", link |-> "l_sd"],
      [width |-> 2560, height |-> 1440, quality |-> "sd", link |-> "l_big"] }

FileLists == SeqsUpTo(FileVariants, MaxFiles)

InitFile ==
    /\ fsel \in [pc : {"call"}, files : FileLists, chosen : { <<>> }]
    /\ SelectIdle /\ ExtractIdle /\ QueryIdle /\ PromptIdle
    /\ SearchIdle
    /\ AssemblyIdle
    /\ RunIdle

FileCall ==
    /\ fsel.pc = "call"
    /\ fsel' = [fsel EXCEPT !.pc = "returned",
                            !.chosen = SelectBestVideoFile([video_files |-> fsel.files])]
    /\ UNCHANGED <<searchVars, assemblyVars, sel, ext, qry, pgen, runVars>>

SpecFile == InitFile /\ [][FileCall]_vars

-----------------------------------------------------------------------------
(* VideoAssembler._process_video_files: trim or loop every clip to its slot *)

(* Durations of clips are integers counted in units of 1/n tick, where n is  *)
(* len(video_files): a native duration of d ticks is d*n units and            *)
(* duration_per_clip = target_duration / n is target_duration units, so the   *)
(* division of line 108 is exact.                                             *)

MaxClips == 3        \* longest video_files list
MaxNative == 5       \* longest native clip duration, in ticks
MaxTotal == 12       \* longest total_duration, in ticks

\* a downloaded file: readable with a native duration, or one VideoFileClip rejects
ClipFiles ==
    { [readable |-> TRUE, duration |-> d] : d \in 1..MaxNative }
    \cup { [readable |-> FALSE, duration |-> 0] }

\* faulty variant: the "+ 1" of the loop count is forgotten
LoopsNeededFloor(native, required) == required \div native

\* int(duration_per_clip / clip.duration) + 1
LoopsNeeded(native, required) == (required \div native) + 1

\* clip.subclipped(0, end): the clip cut to [0, end); a clip cannot be cut to
\* more than its length (the library raises)
SubclippedOk(length, end) == end <= length
Subclipped(length, end) == end

\* lines 124-129: the fitted clip, or the failure of the cut
FitClip(native, required) ==
    IF native > required
    THEN [ok |-> SubclippedOk(native, required), loops |-> 1,
          duration |-> Subclipped(native, required)]
    ELSE IF native < required
    THEN LET loops == LoopsNeeded(native, required)
         IN  [ok |-> SubclippedOk(loops * native, required), loops |-> loops,
              duration |-> Subclipped(loops * native, required)]
    ELSE [ok |-> TRUE, loops |-> 1, duration |-> native]

\* the for loop of lines 110-139: a clip that raises is logged and left out
RECURSIVE ProcessClips(_, _, _)
ProcessClips(files, k, required) ==
    IF k > Len(files) THEN <<>>
    ELSE LET file   == files[k]
             fitted == FitClip(file.duration * Len(files), required)
             rest   == ProcessClips(files, k + 1, required)
         IN  IF file.readable /\ fitted.ok
             THEN << [source |-> k, loops |-> fitted.loops,
                      duration |-> fitted.duration] >> \o rest
             ELSE rest

\* faulty variant: step 1 returns whatever it has, also nothing
ProcessVideoFilesNeverRaises(files, clips) == FALSE

\* lines 104-105 and 141-142: nothing to assemble
ProcessVideoFilesRaises(files, clips) == files = <<>> \/ clips = <<>>

RECURSIVE SumDurations(_)
SumDurations(clips) ==
    IF clips = <<>> THEN 0 ELSE Head(clips).duration + SumDurations(Tail(clips))

-----------------------------------------------------------------------------
(* VideoAssembler._create_word_level_subtitles *)

MaxWords == 3        \* longest transcript, in words
MaxTime == 1         \* latest word time, in ticks

Whitespace == { " ", "\t", "\n" }

WordTexts ==
    { <<" ">>,
      <<" ","h","i","\n">>,
      <<"o","k">> }

\* transcript words with start <= end
Words ==
    { wd \in [word : WordTexts, start : 0..MaxTime, end : 0..MaxTime] :
        wd.start <= wd.end }

\* str.strip(): leading and trailing whitespace removed
RECURSIVE LStrip(_)
LStrip(text) ==
    IF text # <<>> /\ Head(text) \in Whitespace THEN LStrip(Tail(text)) ELSE text

RECURSIVE RStrip(_)
RStrip(text) ==
    IF text # <<>> /\ text[Len(text)] \in Whitespace
    THEN RStrip(SubSeq(text, 1, Len(text) - 1))
    ELSE text

Strip(text) == RStrip(LStrip(text))

\* faulty variant: the caption's duration is set to the word's end time
WordClipEndAsDuration(word_data) ==
    [ text     |-> Strip(word_data.word),
      start    |-> word_data.start,
      duration |-> word_data.end ]

\* the TextClip of lines 260-270: shown from word.start for word.end - word.start
WordClip(word_data) ==
    [ text     |-> Strip(word_data.word),
      start    |-> word_data.start,
      duration |-> word_data.end - word_data.start ]

\* what the except clause of lines 275-277 returns when a word fails to build
OnWordError(clips_so_far) == <<>>

\* the for loop of lines 255-272 from word k on, clips being the list so far;
\* fails holds the indices of the words whose TextClip raises
RECURSIVE WordLoop(_, _, _, _)
WordLoop(words, k, clips, fails) ==
    IF k > Len(words) THEN clips
    ELSE IF Strip(words[k].word) = <<>>
         THEN WordLoop(words, k + 1, clips, fails)
    ELSE IF k \in fails
         THEN OnWordError(clips)
    ELSE WordLoop(words, k + 1, Append(clips, WordClip(words[k])), fails)

CreateWordLevelSubtitles(words, fails) == WordLoop(words, 1, <<>>, fails)

-----------------------------------------------------------------------------
(* VideoAssembler._add_audio_layers *)

Max(a, b) == IF a > b THEN a ELSE b

\* lines 195-210: the background music fitted to the video by the trim-or-loop
\* rule, mixed with the original audio (a CompositeAudioClip lasts as long as
\* its longest track); without background music, the original audio alone
MixedAudio(original, music, video) ==
    IF music.present
    THEN Max(original, FitClip(music.duration, video).duration)
    ELSE original

\* faulty variant: the mixed audio is attached as it is
TrimAudioNever(mixed, video) == mixed

\* lines 215-217: trim audio to match video duration
TrimAudio(mixed, video) == IF mixed > video THEN video ELSE mixed

-----------------------------------------------------------------------------
(* VideoAssembler.create_final_reel *)

InitAssembly(files, totals, transcripts, audios) ==
    /\ apc = "process"
    /\ video_files \in files
    /\ total_duration \in totals
    /\ word_level \in transcripts
    /\ processed_clips = <<>>
    /\ concatenated = 0
    /\ subtitle_clips = <<>>
    /\ buildFails = {}
    /\ stepsRun = {}
    /\ outputWritten = FALSE
    /\ \E audio \in audios :
          /\ narration = audio.narration
          /\ background = audio.background
    /\ audio_duration = 0
    /\ SearchIdle
    /\ SelectIdle /\ ExtractIdle /\ QueryIdle /\ FileIdle /\ PromptIdle
    /\ RunIdle

\* Step 1: _process_video_files; ValueError propagates out of create_final_reel
AssembleProcess ==
    /\ apc = "process"
    /\ LET clips == ProcessClips(video_files, 1, total_duration)
       IN  IF ProcessVideoFilesRaises(video_files, clips)
           THEN /\ apc' = "raised"
                /\ UNCHANGED <<processed_clips, stepsRun>>
           ELSE /\ apc' = "concat"
                /\ processed_clips' = clips
                /\ stepsRun' = stepsRun \cup {"process"}
    /\ UNCHANGED <<video_files, total_duration, word_level, concatenated,
                   subtitle_clips, buildFails, outputWritten>>
    /\ UNCHANGED <<narration, background, audio_duration>>
    /\ UNCHANGED <<searchVars, callVars, runVars>>

\* Step 2: _concatenate_videos
AssembleConcat ==
    /\ apc = "concat"
    /\ concatenated' = SumDurations(processed_clips)
    /\ stepsRun' = stepsRun \cup {"concat"}
    /\ apc' = "audio"
    /\ UNCHANGED <<video_files, total_duration, word_level, processed_clips,
                   subtitle_clips, buildFails, outputWritten>>
    /\ UNCHANGED <<narration, background, audio_duration>>
    /\ UNCHANGED <<searchVars, callVars, runVars>>

\* Step 3: _add_audio_layers; a failure to load or fit a track is taken by
\* AssembleStepRaises
AssembleAudio ==
    /\ apc = "audio"
    /\ audio_duration' = TrimAudio(MixedAudio(narration, background, concatenated),
                                   concatenated)
    /\ stepsRun' = stepsRun \cup {"audio"}
    /\ apc' = "subtitles"
    /\ UNCHANGED <<video_files, total_duration, word_level, processed_clips,
                   concatenated, subtitle_clips, buildFails, outputWritten>>
    /\ UNCHANGED <<narration, background>>
    /\ UNCHANGED <<searchVars, callVars, runVars>>

\* Step 4: _add_subtitles; a TextClip may fail to build for any of the words
\* it is built for, those that are not empty after strip()
AssembleSubtitles ==
    /\ apc = "subtitles"
    /\ \E fails \in SUBSET { k \in 1..Len(word_level) : Strip(word_level[k].word) # <<>> } :
         /\ buildFails' = fails
         /\ subtitle_clips' = CreateWordLevelSubtitles(word_level, fails)
    /\ stepsRun' = stepsRun \cup {"subtitles"}
    /\ apc' = "export"
    /\ UNCHANGED <<video_files, total_duration, word_level, processed_clips,
                   concatenated, outputWritten>>
    /\ UNCHANGED <<narration, background, audio_duration>>
    /\ UNCHANGED <<searchVars, callVars, runVars>>

\* Step 5: _export_final_video
AssembleExport ==
    /\ apc = "export"
    /\ outputWritten' = TRUE
    /\ stepsRun' = stepsRun \cup {"export"}
    /\ apc' = "done"
    /\ UNCHANGED <<video_files, total_duration, word_level, processed_clips,
                   concatenated, subtitle_clips, buildFails>>
    /\ UNCHANGED <<narration, background, audio_duration>>
    /\ UNCHANGED <<searchVars, callVars, runVars>>

\* a media-library call of steps 2-5 raises: logged and re-raised (lines 94-96);
\* a failed export may leave a partial file behind
AssembleStepRaises ==
    /\ apc \in { "concat", "audio", "subtitles", "export" }
    /\ apc' = "raised"
    /\ outputWritten' \in (IF apc = "export" THEN BOOLEAN ELSE {outputWritten})
    /\ UNCHANGED <<video_files, total_duration, word_level, processed_clips,
                   concatenated, subtitle_clips, buildFails, stepsRun>>
    /\ UNCHANGED <<narration, background, audio_duration>>
    /\ UNCHANGED <<searchVars, callVars, runVars>>

NextAssembly ==
    \/ AssembleProcess
    \/ AssembleConcat
    \/ AssembleAudio
    \/ AssembleSubtitles
    \/ AssembleExport
    \/ AssembleStepRaises

\* create_final_reel over every clip list, with one fixed transcript
FitTranscript == << [word |-> <<"o","k">>, start |-> 0, end |-> 1] >>

FitAudio == [narration |-> 1, background |-> NoBackground]
InitFit ==
    InitAssembly(SeqsUpTo(ClipFiles, MaxClips), 1..MaxTotal, {FitTranscript}, {FitAudio})

SpecFit == InitFit /\ [][NextAssembly]_vars

\* create_final_reel over every transcript, with one fixed clip
CaptionFiles == << [readable |-> TRUE, duration |-> 2] >>

InitCaption ==
    InitAssembly({CaptionFiles}, {MaxTime + 1}, SeqsUpTo(Words, MaxWords), {FitAudio})

SpecCaption == InitCaption /\ [][NextAssembly]_vars

\* create_final_reel over every original audio and background music, with one
\* clip and one fixed transcript
MaxAudio == 14       \* longest audio track, in ticks

AudioTracks ==
    { [narration |-> a, background |-> b] :
        a \in 1..MaxAudio,
        b \in {NoBackground} \cup { [present |-> TRUE, duration |-> d] : d \in 1..MaxAudio } }

InitAudio ==
    InitAssembly({CaptionFiles}, 1..MaxTotal, {FitTranscript}, AudioTracks)

SpecAudio == InitAudio /\ [][NextAssembly]_vars

-----------------------------------------------------------------------------
(* ReelGenerator and T2VReelGenerator: __init__ and generate_reel *)

RunMaxSegments == 3  \* longest list the selection stage hands to the download stage

EnvVars == { "CO_API_KEY", "PEXELS_API_KEY", "WHISPER_NGROK_URL", "T2V_NGROK_URL" }

\* required_vars of _validate_env
RequiredVars(o) ==
    IF o = "stock" THEN { "CO_API_KEY", "PEXELS_API_KEY" }
    ELSE { "CO_API_KEY", "T2V_NGROK_URL" }

\* the steps of generate_reel, in program order
Stages(o) ==
    IF o = "stock"
    THEN << "transcribe", "extract", "search", "download", "assemble", "cleanup" >>
    ELSE << "transcribe", "extract", "prompts", "generate", "assemble", "cleanup" >>

SelectStage(o) == Stages(o)[3]
DownloadStage(o) == Stages(o)[4]

Logged(stage, event) == \E k \in 1..Len(stageLog) : stageLog[k] = <<stage, event>>

\* estimated_duration of one generated clip, in seconds
EstimatedClipSeconds == 5

\* transcript_data['total_duration'] of the run, in seconds
RunTargets == { EstimatedClipSeconds * k : k \in 0..RunMaxSegments }

\* the file a segment (prompt) is written to
PathOf(o, k) == (IF o = "stock" THEN "pexels_" ELSE "temp_t2v_") \o ToString(k)

WavPath == "converted.wav"

\* how one download (generation) can end
DownloadOutcomes(o) ==
    IF o = "stock" THEN { "ok", "empty", "http_error", "write_error" }
    ELSE { "ok", "http_error", "write_error" }

\* what download_video_segment / _generate_single_video returns
DownloadVideoSegment(o, k, how) == IF how = "ok" THEN PathOf(o, k) ELSE "None"

\* whether the file is on disk afterwards
LeavesFile(how) == how \in { "ok", "empty", "write_error" }

\* whether the path was appended to the tracking list
Tracks(how) == how \in { "ok", "empty" }

\* faulty variant: the returned value is appended without the test
TruthyAlways(file_path) == TRUE

\* "if file_path:" / "if video_path:"
Truthy(file_path) == file_path # "None"

\* faulty variant: a removal that fails ends the cleanup
OnRemoveErrorPropagates == "raised"

\* the try/except around os.remove inside the cleanup loops
OnRemoveError == "logged"

\* PexelsClient.cleanup, T2VClient.cleanup, WhisperProcessor.cleanup: try to
\* remove every tracked file, then clear the list; fails holds the files whose
\* os.remove raises
RECURSIVE RemoveLoop(_, _, _, _, _)
RemoveLoop(files, k, fails, onDisk, tried) ==
    IF k > Len(files)
    THEN [raised |-> FALSE, disk |-> onDisk, attempted |-> tried, temp_files |-> <<>>]
    ELSE LET f == files[k]
         IN  IF f \in onDisk /\ f \in fails
             THEN IF OnRemoveError = "logged"
                  THEN RemoveLoop(files, k + 1, fails, onDisk, tried \cup {f})
                  ELSE [raised |-> TRUE, disk |-> onDisk,
                        attempted |-> tried \cup {f}, temp_files |-> files]
             ELSE RemoveLoop(files, k + 1, fails, onDisk \ {f}, tried \cup {f})

\* _cleanup_temp_files: the client's cleanup, then the transcriber's, inside
\* one try/except that logs a warning
CleanupTempFiles(videoFiles, audioFiles, fails, onDisk, tried) ==
    LET first == RemoveLoop(videoFiles, 1, fails, onDisk, tried)
        second == RemoveLoop(audioFiles, 1, fails, first.disk, first.attempted)
    IN  IF first.raised
        THEN [disk |-> first.disk, attempted |-> first.attempted,
              temp_video_files |-> first.temp_files, whisper_temp_files |-> audioFiles]
        ELSE [disk |-> second.disk, attempted |-> second.attempted,
              temp_video_files |-> first.temp_files,
              whisper_temp_files |-> second.temp_files]

\* faulty variant: every error path cleans up
CleansUpOnErrorAlways(o) == TRUE

\* whether the except block of generate_reel calls _cleanup_temp_files
CleansUpOnError(o) == o = "t2v"

\* the bare "raise" of the except block re-raises the error being handled
ReRaised(original) == original

InitRun ==
    /\ orchestrator \in { "stock", "t2v" }
    /\ environ \in SUBSET EnvVars
    /\ run_target \in RunTargets
    /\ rpc = "new"
    /\ stageLog = <<>>
    /\ temp_dir = "none"
    /\ found_segments = <<>>
    /\ dlOutcome = <<>>
    /\ downloaded_files = <<>>
    /\ temp_video_files = <<>>
    /\ whisper_temp_files = <<>>
    /\ disk = {}
    /\ attempted = {}
    /\ outcome = [kind |-> "none", value |-> "none"]
    /\ outputExported = FALSE
    /\ SearchIdle
    /\ AssemblyIdle
    /\ SelectIdle /\ ExtractIdle /\ QueryIdle /\ FileIdle /\ PromptIdle

\* __init__: _validate_env exits when a required variable is missing
ConstructExits ==
    /\ rpc = "new"
    /\ ~(RequiredVars(orchestrator) \subseteq environ)
    /\ rpc' = "exited"
    /\ UNCHANGED <<orchestrator, environ, run_target, stageLog, temp_dir, found_segments,
                   dlOutcome, downloaded_files, temp_video_files,
                   whisper_temp_files, disk, attempted, outcome, outputExported>>
    /\ UNCHANGED <<searchVars, assemblyVars, callVars>>

\* __init__: the LLM client of KeywordExtractor (or VideoPromptGenerator) fails
\* to initialise and the error propagates; VideoAssembler is not built yet
ConstructRaises ==
    /\ rpc = "new"
    /\ RequiredVars(orchestrator) \subseteq environ
    /\ rpc' = "ctor_raised"
    /\ UNCHANGED <<orchestrator, environ, run_target, stageLog, temp_dir, found_segments,
                   dlOutcome, downloaded_files, temp_video_files,
                   whisper_temp_files, disk, attempted, outcome, outputExported>>
    /\ UNCHANGED <<searchVars, assemblyVars, callVars>>

\* __init__: every component is built; a missing WHISPER_NGROK_URL is only
\* warned about; VideoAssembler.__init__ creates the working directory
Construct ==
    /\ rpc = "new"
    /\ RequiredVars(orchestrator) \subseteq environ
    /\ temp_dir' = "exists"
    /\ rpc' = "transcribe"
    /\ UNCHANGED <<orchestrator, environ, run_target, stageLog, found_segments,
                   dlOutcome, downloaded_files, temp_video_files,
                   whisper_temp_files, disk, attempted, outcome, outputExported>>
    /\ UNCHANGED <<searchVars, assemblyVars, callVars>>

\* s restricted to the positions in idx, in order
Subsequence(s, idx) ==
    LET F[k \in 0..Len(s)] ==
            IF k = 0 THEN <<>>
            ELSE IF k \in idx THEN Append(F[k - 1], s[k]) ELSE F[k - 1]
    IN  F[Len(s)]

\* how transcribe_audio can end: the audio file is missing, no endpoint is
\* configured, the conversion to WAV fails before or after the temporary file
\* is tracked, the service call fails, or the transcript is returned
TranscribeOutcomes(endpointSet, isWav) ==
    IF ~endpointSet THEN { "no_file", "no_endpoint" }
    ELSE IF isWav THEN { "no_file", "service_failed", "ok" }
    ELSE { "no_file", "convert_failed", "export_failed", "service_failed", "ok" }

\* Step 1: whisper_processor.transcribe_audio
RunTranscribe ==
    /\ rpc = "transcribe"
    /\ \E isWav \in BOOLEAN :
       \E how \in TranscribeOutcomes("WHISPER_NGROK_URL" \in environ, isWav) :
         /\ whisper_temp_files' =
                IF ~isWav /\ how \in { "export_failed", "service_failed", "ok" }
                THEN Append(whisper_temp_files, WavPath) ELSE whisper_temp_files
         /\ disk' = IF ~isWav /\ how \in { "service_failed", "ok" }
                    THEN disk \cup {WavPath} ELSE disk
         /\ IF how = "ok"
            THEN /\ stageLog' = stageLog \o << <<"transcribe", "start">>,
                                               <<"transcribe", "done">> >>
                 /\ rpc' = "extract"
                 /\ UNCHANGED outcome
            ELSE /\ stageLog' = stageLog \o << <<"transcribe", "start">>,
                                               <<"transcribe", "raised">> >>
                 /\ rpc' = "failed"
                 /\ outcome' = [kind |-> "raising", value |-> how]
    /\ UNCHANGED <<orchestrator, environ, run_target, temp_dir, found_segments,
                   dlOutcome, downloaded_files, temp_video_files, attempted,
                   outputExported>>
    /\ UNCHANGED <<searchVars, assemblyVars, callVars>>

\* Step 2: keyword_extractor.extract_keywords, which catches every error
RunExtract ==
    /\ rpc = "extract"
    /\ stageLog' = stageLog \o << <<"extract", "start">>, <<"extract", "done">> >>
    /\ rpc' = SelectStage(orchestrator)
    /\ UNCHANGED <<orchestrator, environ, run_target, temp_dir, found_segments,
                   dlOutcome, downloaded_files, temp_video_files,
                   whisper_temp_files, disk, attempted, outcome, outputExported>>
    /\ UNCHANGED <<searchVars, assemblyVars, callVars>>

\* Step 3: search_portrait_videos (generate_video_sequence) returns a list
RunSelect ==
    /\ rpc = SelectStage(orchestrator)
    /\ \E n \in 0..(IF orchestrator = "stock" THEN Min(RunMaxSegments, MaxSegments)
                    ELSE RunMaxSegments) :
         found_segments' = [k \in 1..n |-> k]
    /\ stageLog' = stageLog \o << <<SelectStage(orchestrator), "start">>,
                                  <<SelectStage(orchestrator), "done">> >>
    /\ rpc' = DownloadStage(orchestrator)
    /\ UNCHANGED <<orchestrator, environ, run_target, temp_dir,
                   dlOutcome, downloaded_files, temp_video_files,
                   whisper_temp_files, disk, attempted, outcome, outputExported>>
    /\ UNCHANGED <<searchVars, assemblyVars, callVars>>

\* Step 3.5 (Step 4): download_all_segments (generate_videos_from_prompts) begins
RunDownloadStart ==
    /\ rpc = DownloadStage(orchestrator)
    /\ stageLog' = Append(stageLog, <<DownloadStage(orchestrator), "start">>)
    /\ rpc' = "loop"
    /\ UNCHANGED <<orchestrator, environ, run_target, temp_dir, found_segments,
                   dlOutcome, downloaded_files, temp_video_files,
                   whisper_temp_files, disk, attempted, outcome, outputExported>>
    /\ UNCHANGED <<searchVars, assemblyVars, callVars>>

\* "if total_duration >= target_duration: break" of generate_videos_from_prompts
TargetReached(o, files, target) ==
    o = "t2v" /\ EstimatedClipSeconds * Len(files) >= target

LoopContinues ==
    /\ Len(dlOutcome) < Len(found_segments)
    /\ ~TargetReached(orchestrator, downloaded_files, run_target)

\* one iteration of the loop: a download (generation) that fails is logged
RunDownloadSegment ==
    /\ rpc = "loop" /\ LoopContinues
    /\ \E how \in DownloadOutcomes(orchestrator) :
         LET k == Len(dlOutcome) + 1
             file_path == DownloadVideoSegment(orchestrator, k, how)
         IN  /\ dlOutcome' = Append(dlOutcome, how)
             /\ downloaded_files' = IF Truthy(file_path)
                                    THEN Append(downloaded_files, file_path)
                                    ELSE downloaded_files
             /\ temp_video_files' = IF Tracks(how)
                                    THEN Append(temp_video_files, PathOf(orchestrator, k))
                                    ELSE temp_video_files
             /\ disk' = IF LeavesFile(how)
                        THEN disk \cup { PathOf(orchestrator, k) } ELSE disk
    /\ UNCHANGED <<orchestrator, environ, run_target, rpc, stageLog, temp_dir,
                   found_segments, whisper_temp_files, attempted, outcome,
                   outputExported>>
    /\ UNCHANGED <<searchVars, assemblyVars, callVars>>

\* the loop ends and the list is returned; T2VReelGenerator raises on an empty list
RunDownloadEnd ==
    /\ rpc = "loop" /\ ~LoopContinues
    /\ IF orchestrator = "t2v" /\ downloaded_files = <<>>
       THEN /\ stageLog' = stageLog \o << <<DownloadStage(orchestrator), "done">>,
                                          <<"check", "raised">> >>
            /\ rpc' = "failed"
            /\ outcome' = [kind |-> "raising", value |-> "no_videos"]
       ELSE /\ stageLog' = Append(stageLog, <<DownloadStage(orchestrator), "done">>)
            /\ rpc' = "assemble"
            /\ UNCHANGED outcome
    /\ UNCHANGED <<orchestrator, environ, run_target, temp_dir, found_segments,
                   dlOutcome, downloaded_files, temp_video_files,
                   whisper_temp_files, disk, attempted, outputExported>>
    /\ UNCHANGED <<searchVars, assemblyVars, callVars>>

\* Step 4 (Step 5): video_assembler.create_final_reel; step 1 of it raises when
\* no file was passed or no file could be processed, a later step may raise
RunAssemble ==
    /\ rpc = "assemble"
    /\ \E readable \in SUBSET (1..Len(downloaded_files)) :
       \E later \in { "ok", "assembly_failed" } :
         LET clips == Subsequence(downloaded_files, readable)
             error == IF ProcessVideoFilesRaises(downloaded_files, clips)
                      THEN "no_clips" ELSE later
         IN  IF error = "ok"
             THEN /\ stageLog' = stageLog \o << <<"assemble", "start">>,
                                                <<"assemble", "done">> >>
                  /\ outputExported' = TRUE
                  /\ rpc' = "cleanup"
                  /\ UNCHANGED outcome
             ELSE /\ stageLog' = stageLog \o << <<"assemble", "start">>,
                                                <<"assemble", "raised">> >>
                  /\ rpc' = "failed"
                  /\ outcome' = [kind |-> "raising", value |-> error]
                  /\ UNCHANGED outputExported
    /\ UNCHANGED <<orchestrator, environ, run_target, temp_dir, found_segments,
                   dlOutcome, downloaded_files, temp_video_files,
                   whisper_temp_files, disk, attempted>>
    /\ UNCHANGED <<searchVars, assemblyVars, callVars>>

\* Step 5 (Step 6): _cleanup_temp_files, then "return final_video_path"
RunCleanup ==
    /\ rpc = "cleanup"
    /\ \E fails \in SUBSET (Range(temp_video_files) \cup Range(whisper_temp_files)) :
         LET done == CleanupTempFiles(temp_video_files, whisper_temp_files,
                                      fails, disk, attempted)
         IN  /\ temp_video_files' = done.temp_video_files
             /\ whisper_temp_files' = done.whisper_temp_files
             /\ disk' = done.disk
             /\ attempted' = done.attempted
    /\ stageLog' = stageLog \o << <<"cleanup", "start">>, <<"cleanup", "done">> >>
    /\ outcome' = [kind |-> "return", value |-> "final_video_path"]
    /\ rpc' = "returned"
    /\ UNCHANGED <<orchestrator, environ, run_target, temp_dir, found_segments,
                   dlOutcome, downloaded_files, outputExported>>
    /\ UNCHANGED <<searchVars, assemblyVars, callVars>>

\* the except block of generate_reel: log, clean up (T2VReelGenerator only,
\* inside try/except/pass), re-raise
RunExcept ==
    /\ rpc = "failed"
    /\ IF CleansUpOnError(orchestrator)
       THEN /\ \E fails \in SUBSET (Range(temp_video_files)
                                      \cup Range(whisper_temp_files)) :
                 LET done == CleanupTempFiles(temp_video_files, whisper_temp_files,
                                              fails, disk, attempted)
                 IN  /\ temp_video_files' = done.temp_video_files
                     /\ whisper_temp_files' = done.whisper_temp_files
                     /\ disk' = done.disk
                     /\ attempted' = done.attempted
            /\ stageLog' = stageLog \o << <<"cleanup", "start">>,
                                          <<"cleanup", "done">> >>
       ELSE UNCHANGED <<temp_video_files, whisper_temp_files, disk, attempted,
                        stageLog>>
    /\ outcome' = [kind |-> "raise", value |-> ReRaised(outcome.value)]
    /\ rpc' = "raised"
    /\ UNCHANGED <<orchestrator, environ, run_target, temp_dir, found_segments,
                   dlOutcome, downloaded_files, outputExported>>
    /\ UNCHANGED <<searchVars, assemblyVars, callVars>>

NextRun ==
    \/ ConstructExits
    \/ ConstructRaises
    \/ Construct
    \/ RunTranscribe
    \/ RunExtract
    \/ RunSelect
    \/ RunDownloadStart
    \/ RunDownloadSegment
    \/ RunDownloadEnd
    \/ RunAssemble
    \/ RunCleanup
    \/ RunExcept

SpecRun == InitRun /\ [][NextRun]_vars

-----------------------------------------------------------------------------
(* KeywordExtractor.extract_keywords *)

MaxTokens == 7       \* most comma-separated pieces in one response

\* pieces the extraction service can put between the commas of its answer
TokenPool ==
    << <<" ","O","f","f","i","c","e">>,
       <<"\"","t","e","a","m","\"">>,
       <<"m","e","e","t","i","n","g",".">>,
       <<"O","F","F","I","C","E"," ">>,
       <<"a">>,
       <<"x","1">>,
       <<>>,
       <<"e","n","t","r","e","p","r","e","n","e","u","r","s","h","i","p">>,
       <<"d","e","s","k">>,
       <<"s","u","i","t">>,
       <<"l","a","p","t","o","p">>,
       <<"b","u","s","i","n","e","s","s","m","a","n">>,
       <<"c","o","n","f","e","r","e","n","c","e"," ","r","o","o","m">>,
       <<"'",".","'">> >>

\* str.join
RECURSIVE Join(_, _)
Join(parts, sep) ==
    IF parts = <<>> THEN <<>>
    ELSE IF Len(parts) = 1 THEN parts[1]
    ELSE parts[1] \o sep \o Join(Tail(parts), sep)

\* str.split(sep) for a one-character separator
Split(text, sep) ==
    LET F[k \in 0..Len(text)] ==
            IF k = 0 THEN << <<>> >>
            ELSE LET before == F[k - 1]
                 IN  IF text[k] = sep
                     THEN Append(before, <<>>)
                     ELSE [before EXCEPT ![Len(before)] = Append(@, text[k])]
    IN  F[Len(text)]

\* the answers of the service: a failure of the call, or a text made of at most
\* MaxTokens pieces of the pool, in pool order, joined by commas
Responses ==
    { [ok |-> FALSE, content |-> <<>>] }
    \cup { [ok |-> TRUE, content |-> Join(Subsequence(TokenPool, idx), <<",">>)] :
             idx \in { i \in SUBSET (1..Len(TokenPool)) : Cardinality(i) <= MaxTokens } }

\* keyword.replace('"', '').replace("'", '').replace('.', '')
RemovedChars == { "\"", "'", "." }
RemoveChars(text) == SelectSeq(text, LAMBDA c : c \notin RemovedChars)

\* str.isalpha() over the characters of the model
IsAlpha(text) ==
    /\ text # <<>>
    /\ \A k \in 1..Len(text) : text[k] \in Range(LowerChars) \cup Range(UpperChars)

MinKeywordLen == 2
MaxKeywordLen == 15
MinKeywords == 4
MaxKeywordCount == 5

\* the first for loop of _clean_keywords
RECURSIVE CleanLoop(_)
CleanLoop(raw) ==
    IF raw = <<>> THEN <<>>
    ELSE LET stripped == Strip(Head(raw))
             keyword == RemoveChars(stripped)
             rest == CleanLoop(Tail(raw))
         IN  IF stripped = <<>> THEN rest
             ELSE IF Len(keyword) < MinKeywordLen \/ Len(keyword) > MaxKeywordLen THEN rest
             ELSE IF IsAlpha(keyword) THEN <<keyword>> \o rest
             ELSE rest

\* "remove duplicates while preserving order"
Unique(list) ==
    LET F[k \in 0..Len(list)] ==
            IF k = 0 THEN <<>>
            ELSE IF list[k] \in Range(F[k - 1]) THEN F[k - 1]
            ELSE Append(F[k - 1], list[k])
    IN  F[Len(list)]

CleanKeywords(raw) == Take(Unique(CleanLoop(raw)), MaxKeywordCount)

\* fallback_keywords of _ensure_minimum_keywords
MinimumFallbacks ==
    << <<"b","u","s","i","n","e","s","s","m","a","n">>,
       <<"o","f","f","i","c","e">>,
       <<"m","e","e","t","i","n","g">>,
       <<"p","r","o","f","e","s","s","i","o","n","a","l">>,
       <<"b","o","a","r","d","r","o","o","m">> >>

\* faulty variant: fallbacks are appended without the membership test
RECURSIVE FillUnchecked(_, _)
FillUnchecked(list, fallbacks) ==
    IF fallbacks = <<>> \/ Len(list) >= MinKeywords THEN list
    ELSE FillUnchecked(Append(list, Head(fallbacks)), Tail(fallbacks))

\* the for loop of _ensure_minimum_keywords
RECURSIVE Fill(_, _)
Fill(list, fallbacks) ==
    IF fallbacks = <<>> \/ Len(list) >= MinKeywords THEN list
    ELSE IF Head(fallbacks) \in Range(list) THEN Fill(list, Tail(fallbacks))
    ELSE Fill(Append(list, Head(fallbacks)), Tail(fallbacks))

EnsureMinimumKeywords(list) == Take(Fill(list, MinimumFallbacks), MaxKeywordCount)

\* _get_fallback_keywords
FallbackKeywords ==
    << <<"b","u","s","i","n","e","s","s","m","a","n">>,
       <<"o","f","f","i","c","e">>,
       <<"m","e","e","t","i","n","g">>,
       <<"b","o","a","r","d","r","o","o","m">>,
       <<"e","x","e","c","u","t","i","v","e">> >>

\* extract_keywords: parse, clean and complete the answer; any failure gives
\* the fallback list
ExtractKeywords(response) ==
    IF ~response.ok THEN FallbackKeywords
    ELSE LET keywords_text == Strip(response.content)
             raw == Split(keywords_text, ",")
             lowered == [k \in 1..Len(raw) |-> Lower(Strip(raw[k]))]
         IN  EnsureMinimumKeywords(CleanKeywords(lowered))

InitExtract ==
    /\ ext \in [pc : {"call"}, response : Responses, keywords : { <<>> }]
    /\ SelectIdle /\ QueryIdle /\ FileIdle /\ PromptIdle
    /\ SearchIdle
    /\ AssemblyIdle
    /\ RunIdle

ExtractCall ==
    /\ ext.pc = "call"
    /\ ext' = [ext EXCEPT !.pc = "returned",
                          !.keywords = ExtractKeywords(ext.response)]
    /\ UNCHANGED <<searchVars, assemblyVars, sel, qry, fsel, pgen, runVars>>

SpecExtract == InitExtract /\ [][ExtractCall]_vars

-----------------------------------------------------------------------------
(* PexelsClient._generate_dynamic_query *)

NumContexts == 5     \* how many of the context terms the sample is drawn from
NumModifiers == 2    \* how many of the modifiers the choice is drawn from

business_contexts ==
    << <<"c","o","r","p","o","r","a","t","e">>,
       <<"b","u","s","i","n","e","s","s">>,
       <<"p","r","o","f","e","s","s","i","o","n","a","l">>,
       <<"o","f","f","i","c","e">>,
       <<"e","x","e","c","u","t","i","v","e">>,
       <<"t","e","a","m">>,
       <<"w","o","r","k","p","l","a","c","e">>,
       <<"m","e","e","t","i","n","g">>,
       <<"c","o","l","l","a","b","o","r","a","t","i","o","n">>,
       <<"l","e","a","d","e","r","s","h","i","p">>,
       <<"s","t","r","a","t","e","g","y">>,
       <<"e","n","t","r","e","p","r","e","n","e","u","r">>,
       <<"b","o","a","r","d","r","o","o","m">>,
       <<"c","o","n","f","e","r","e","n","c","e">>,
       <<"p","r","e","s","e","n","t","a","t","i","o","n">>,
       <<"h","a","n","d","s","h","a","k","e">> >>

industry_modifiers ==
    << <<"m","o","d","e","r","n">>,
       <<"c","o","n","t","e","m","p","o","r","a","r","y">>,
       <<"s","u","c","c","e","s","s","f","u","l">>,
       <<"i","n","n","o","v","a","t","i","v","e">>,
       <<"d","i","v","e","r","s","e">>,
       <<"f","o","c","u","s","e","d">>,
       <<"d","y","n","a","m","i","c">>,
       <<"s","t","r","a","t","e","g","i","c">> >>

\* random.randint(2, 3)
MinContexts == 2
MaxContexts == 3

\* random.sample(business_contexts, n): n terms at distinct positions; the
\* order of the sample does not matter, the list is shuffled afterwards
ContextSamples ==
    { idx \in SUBSET (1..Min(NumContexts, Len(business_contexts))) :
        Cardinality(idx) \in MinContexts..MaxContexts }

\* "random.random() > 0.5" and random.choice(industry_modifiers): no modifier
\* (the empty list) or one of them
ModifierChoices ==
    { <<>> } \cup { << industry_modifiers[k] >> :
                      k \in 1..Min(NumModifiers, Len(industry_modifiers)) }

\* faulty variant: the keyword is left out of the query
QueryPartsNoKeyword(keyword, contexts, modifier) == contexts \o modifier

\* query_parts = [keyword] + selected_contexts (+ [modifier])
QueryParts(keyword, contexts, modifier) == <<keyword>> \o contexts \o modifier

\* random.shuffle: every rearrangement of the list
Shuffles(parts) ==
    { [k \in 1..Len(parts) |-> parts[f[k]]] :
        f \in { g \in [1..Len(parts) -> 1..Len(parts)] :
                  \A a, b \in 1..Len(parts) : a # b => g[a] # g[b] } }

\* the queries _generate_dynamic_query can return for a keyword
DynamicQueries(keyword) ==
    UNION { { Join(parts, <<" ">>) :
                parts \in Shuffles(QueryParts(keyword,
                                              Subsequence(business_contexts, idx),
                                              modifier)) } :
            idx \in ContextSamples, modifier \in ModifierChoices }

\* keywords: one that is no term of the lists, one that is also a context term,
\* one that is also a modifier
QueryKeywords ==
    { <<"d","e","s","k">>,
      <<"o","f","f","i","c","e">>,
      <<"m","o","d","e","r","n">> }

InitQuery ==
    /\ qry \in [pc : {"call"}, keyword : QueryKeywords, query : { <<>> }]
    /\ SelectIdle /\ ExtractIdle /\ FileIdle /\ PromptIdle
    /\ SearchIdle
    /\ AssemblyIdle
    /\ RunIdle

QueryCall ==
    /\ qry.pc = "call"
    /\ \E query \in DynamicQueries(qry.keyword) :
         qry' = [qry EXCEPT !.pc = "returned", !.query = query]
    /\ UNCHANGED <<searchVars, assemblyVars, sel, ext, fsel, pgen, runVars>>

SpecQuery == InitQuery /\ [][QueryCall]_vars

-----------------------------------------------------------------------------
(* VideoPromptGenerator._validate_and_clean_prompts *)

(* A prompt text is modelled by its length after strip() and by whether it   *)
(* holds one of the business keywords; an entry that is no dictionary makes  *)
(* prompt_data.get raise inside the try block.                               *)

MaxPrompts == 6        \* longest video_sequence the LLM response holds

MinPromptLen == 10     \* if len(prompt) < 10: continue
MaxPromptLen == 150    \* if len(prompt) > 150
CutPromptLen == 147    \* prompt[:147] + "..."
EllipsisLen == 3
PrefixLen == 29        \* len("Professional business scene: ")
MinPrompts == 6        \* while len(cleaned_sequence) < 6
SecondsPerPrompt == 5  \* max_prompts = int(target_duration / 5)
PaddingLen == 63       \* len of the prompt text of the padding entries

PromptPool ==
    { [dict |-> FALSE, len |-> 0,   business |-> FALSE],
      [dict |-> TRUE,  len |-> 9,   business |-> FALSE],
      [dict |-> TRUE,  len |-> 12,  business |-> FALSE],
      [dict |-> TRUE,  len |-> 151, business |-> TRUE] }

PromptSequences == SeqsUpTo(PromptPool, MaxPrompts)

\* target durations on both sides of every multiple of 5 that matters
PromptTargets == { 0, 4, 5, 25, 29, 30, 35, 40 }

\* lines 211-218: truncation of a long prompt, prefix of a prompt without a
\* business keyword
CleanedLen(prompt_data) ==
    LET cut == IF prompt_data.len > MaxPromptLen THEN CutPromptLen + EllipsisLen
               ELSE prompt_data.len
    IN  IF prompt_data.business THEN cut ELSE PrefixLen + cut

\* the for loop of lines 201-232 from entry k on; an entry is skipped when it
\* raises, when its text is empty and when its text is shorter than 10
RECURSIVE CleanPrompts(_, _, _)
CleanPrompts(sequence, k, cleaned) ==
    IF k > Len(sequence) THEN cleaned
    ELSE LET prompt_data == sequence[k]
         IN  IF ~prompt_data.dict THEN CleanPrompts(sequence, k + 1, cleaned)
             ELSE IF prompt_data.len = 0 THEN CleanPrompts(sequence, k + 1, cleaned)
             ELSE IF prompt_data.len < MinPromptLen
                  THEN CleanPrompts(sequence, k + 1, cleaned)
             ELSE CleanPrompts(sequence, k + 1,
                      Append(cleaned, [id |-> Len(cleaned) + 1,
                                       len |-> CleanedLen(prompt_data),
                                       purpose |-> "scene"]))

\* the while loop of lines 234-243: padding up to 6 prompts
RECURSIVE PadPrompts(_)
PadPrompts(cleaned) ==
    IF Len(cleaned) >= MinPrompts THEN cleaned
    ELSE PadPrompts(Append(cleaned, [id |-> Len(cleaned) + 1, len |-> PaddingLen,
                                     purpose |-> "fallback"]))

\* lines 245-248: at most int(target_duration / 5) prompts are kept
LimitPrompts(cleaned, target) ==
    LET max_prompts == target \div SecondsPerPrompt
    IN  IF Len(cleaned) > max_prompts THEN Take(cleaned, max_prompts) ELSE cleaned

ValidateAndCleanPrompts(sequence, target) ==
    LimitPrompts(PadPrompts(CleanPrompts(sequence, 1, <<>>)), target)

InitPrompts ==
    /\ pgen \in [pc : {"call"}, sequence : PromptSequences, target : PromptTargets,
                 result : { <<>> }]
    /\ SelectIdle /\ ExtractIdle /\ QueryIdle /\ FileIdle
    /\ SearchIdle
    /\ AssemblyIdle
    /\ RunIdle

PromptsCall ==
    /\ pgen.pc = "call"
    /\ pgen' = [pgen EXCEPT !.pc = "returned",
                            !.result = ValidateAndCleanPrompts(pgen.sequence, pgen.target)]
    /\ UNCHANGED <<searchVars, assemblyVars, sel, ext, qry, fsel, runVars>>

SpecPrompts == InitPrompts /\ [][PromptsCall]_vars

-----------------------------------------------------------------------------
(* Helpers of the properties *)

\* whether s is t with some entries left out
RECURSIVE IsSubsequenceOf(_, _)
IsSubsequenceOf(s, t) ==
    IF s = <<>> THEN TRUE
    ELSE IF t = <<>> THEN FALSE
    ELSE IF Head(s) = Head(t) THEN IsSubsequenceOf(Tail(s), Tail(t))
    ELSE IsSubsequenceOf(s, Tail(t))

LabelsOf(segments) == [k \in 1..Len(segments) |-> segments[k].keyword]

\* the requests of the keyword loop among the requests issued
KeywordRequests == SelectSeq(requests, LAMBDA r : r.kind = "keyword")

\* the whole seconds of the slot of one keyword: the quotient, but at least 6
SlotSeconds ==
    LET q == search_target \div Len(keywords)
    IN  IF q < 6 THEN 6 ELSE q

\* the video_ids of a list of segments
SegmentIds(segments) == { segments[k].video_id : k \in 1..Len(segments) }

\* the segment describes one variant of the candidate whose id it carries
FromOneVariant(segment) ==
    \E id \in VideoIds :
        /\ segment.video_id = id
        /\ segment.duration = Video(id).duration
        /\ \E f \in Range(Video(id).video_files) :
              /\ segment.width = f.width /\ segment.height = f.height
              /\ segment.url = f.link /\ segment.quality = f.quality

\* the candidate's text as the score reads it: url, a space, the uploader's
\* name, all in lower case
Haystack(video) == Lower(video.url \o <<" ">> \o video.user)

\* how many terms of a list occur in the text of each candidate of the
\* scoring pool
TermCounts ==
    [ id \in ScoreVideoIds |->
        [ positives |-> Cardinality({ k \in 1..Len(business_indicators) :
              Contains(Haystack(ScoreVideo(id)), business_indicators[k]) }),
          negatives |-> Cardinality({ k \in 1..Len(avoid_keywords) :
              Contains(Haystack(ScoreVideo(id)), avoid_keywords[k]) }) ] ]

Positives(video) == TermCounts[video.id].positives
Negatives(video) == TermCounts[video.id].negatives
InGoodRange(video) == 8 <= video.duration /\ video.duration <= 15

FallbackLabels == { "fallback_" \o ToString(k) : k \in 1..5 }

IsFallbackSegment(seg) == seg.keyword \in FallbackLabels

\* the segments the keyword loop emitted, and those the fallback step emitted
KeywordSegments(segments) == SelectSeq(segments, LAMBDA seg : ~IsFallbackSegment(seg))
FallbackSegments(segments) == SelectSeq(segments, IsFallbackSegment)

DistinctIds(segments) ==
    \A a, b \in 1..Len(segments) :
        a # b => segments[a].video_id # segments[b].video_id

IsPrefix(s, t) == Len(s) <= Len(t) /\ SubSeq(t, 1, Len(s)) = s

-----------------------------------------------------------------------------
(* C1: search_portrait_videos returns at most 5 segments, whatever the      *)
(* keyword list and the search results, with or without the fallback step.  *)
C1_SegmentCap ==
    pc = "done" => Len(result) <= 5

\* six keywords each produced a segment and five were returned
C1_Witness ==
    /\ pc = "done"
    /\ Len(video_segments) = 6
    /\ Len(result) = 5

(* C2: on a non-empty candidate list _select_best_business_video returns a  *)
(* member of the list, and one whose id is unused unless every candidate's  *)
(* id is already used.                                                      *)
C2_DedupSelect ==
    sel.pc = "returned" =>
        LET video == sel.picked[1]
        IN  /\ video \in Range(sel.videos)
            /\ video.id \in sel.used =>
                 \A c \in Range(sel.videos) : c.id \in sel.used

\* a list of four candidates, some used and some not, returned an unused one
C2_Witness ==
    /\ sel.pc = "returned"
    /\ Len(sel.videos) = 4
    /\ \E c \in Range(sel.videos) : c.id \in sel.used
    /\ \E c \in Range(sel.videos) : c.id \notin sel.used
    /\ sel.picked[1].id \notin sel.used

(* C3 as stated: when every keyword search finds candidates that all have a *)
(* file variant and one of which is unused, the result holds exactly one    *)
(* segment per keyword (up to 5), in keyword order, with distinct ids.      *)
C3_OnePerKeyword ==
    pc = "done" =>
        /\ Len(result) = Min(Len(keywords), 5)
        /\ \A k \in 1..Len(result) : result[k].keyword = keywords[k]
        /\ DistinctIds(result)

(* C3 amended: the same, for keyword lists of at least 3 keywords (with     *)
(* fewer, the fallback step appends segments of its own).                   *)
C3_OnePerKeywordFromThree ==
    (pc = "done" /\ Len(keywords) >= 3) =>
        /\ Len(result) = Min(Len(keywords), 5)
        /\ \A k \in 1..Len(result) : result[k].keyword = keywords[k]
        /\ DistinctIds(result)

\* six keywords, six segments with six ids, the first five returned
C3_Witness ==
    /\ pc = "done"
    /\ Len(keywords) = 6
    /\ Cardinality(used_video_ids) = 6
    /\ Len(result) = 5
    /\ DistinctIds(result)

(* C4: the fallback step runs exactly when the keyword loop produced fewer  *)
(* than 3 segments; it appends at most 2 segments; when the loop produced   *)
(* 3 or more, the result holds no fallback segment.                         *)
C4_FallbackWhenFewerThanThree ==
    /\ pc \in {"start", "loop"} => ~fallbackRan
    /\ Len(fallback_videos) <= 2
    /\ pc = "done" =>
         LET produced == Len(KeywordSegments(video_segments))
         IN  /\ fallbackRan <=> produced < 3
             /\ Len(FallbackSegments(video_segments)) <= 2
             /\ Len(video_segments) <= produced + 2
             /\ produced >= 3 => FallbackSegments(result) = <<>>

\* two keyword segments, then the fallback step added two more
C4_Witness ==
    /\ pc = "done"
    /\ fallbackRan
    /\ Len(KeywordSegments(result)) = 2
    /\ Len(FallbackSegments(result)) = 2

(* C5: the k-th fallback segment emitted is labelled fallback_k, also when  *)
(* earlier fallback searches returned no candidates.                        *)
C5_FallbackLabelsConsecutive ==
    pc = "done" =>
        \A k \in 1..Len(fallback_videos) :
            fallback_videos[k].keyword = "fallback_" \o ToString(k)

(* C6: with a non-empty keyword list search_portrait_videos never raises:   *)
(* a keyword whose search, scoring or file selection raises or finds        *)
(* nothing is skipped, leaving the segments emitted so far in place, and a  *)
(* keyword whose candidates all have a file variant gets its segment.       *)
C6_Step ==
    /\ (pc = "start" /\ Len(keywords) > 0) => pc' = "loop"
    /\ pc \in {"loop", "fallback"} => pc' \in {"loop", "fallback", "done"}
    /\ (pc = "loop" /\ kwIndex <= Len(keywords)) =>
         /\ pc' = "loop"
         /\ kwIndex' = kwIndex + 1
         /\ \/ video_segments' = video_segments
            \/ /\ Len(video_segments') = Len(video_segments) + 1
               /\ IsPrefix(video_segments, video_segments')
               /\ video_segments'[Len(video_segments')].keyword = keywords[kwIndex]
         /\ (KeywordRaises \/ KeywordNoVideos) => video_segments' = video_segments
         /\ \A videos \in SearchResults :
              (AllHaveFiles(videos) /\ KeywordFound(videos)) =>
                  Len(video_segments') = Len(video_segments) + 1
    /\ pc \in {"loop", "fallback"} => IsPrefix(video_segments, video_segments')
    /\ pc' = "done" => result' = SubSeq(video_segments', 1, Min(5, Len(video_segments')))

-----------------------------------------------------------------------------
(* C7: every fitted clip lasts exactly the slot duration r: a longer clip   *)
(* is cut to r, an equal one is kept, a shorter one (d < r) is repeated     *)
(* floor(r/d)+1 times, which is at least r long, and cut to r; no clip is   *)
(* lost in fitting.                                                         *)
C7_FitExact ==
    /\ \A k \in 1..Len(processed_clips) :
         LET clip   == processed_clips[k]
             native == video_files[clip.source].duration * Len(video_files)
         IN  /\ clip.duration = total_duration
             /\ native >= total_duration => clip.loops = 1
             /\ native < total_duration =>
                  /\ (clip.loops - 1) * native <= total_duration
                  /\ total_duration < clip.loops * native
    /\ "process" \in stepsRun =>
         Len(processed_clips) =
             Cardinality({ k \in 1..Len(video_files) : video_files[k].readable })

\* one run cut a clip, kept a clip and repeated a clip three times or more
C7_Witness ==
    /\ "process" \in stepsRun
    /\ \E k \in 1..Len(processed_clips) :
         video_files[processed_clips[k].source].duration * Len(video_files)
             > total_duration
    /\ \E k \in 1..Len(processed_clips) :
         video_files[processed_clips[k].source].duration * Len(video_files)
             = total_duration
    /\ \E k \in 1..Len(processed_clips) : processed_clips[k].loops >= 3

(* C8: create_final_reel on an empty video_files list raises in step 1:     *)
(* no later step starts and no output file is written.                      *)
C8_EmptyFailsFast ==
    video_files = <<>> =>
        /\ apc \in {"process", "raised"}
        /\ stepsRun = {}
        /\ processed_clips = <<>>
        /\ ~outputWritten

C8_Witness ==
    /\ video_files = <<>>
    /\ apc = "raised"

(* C9: the captions follow the order of the transcript words: they are the  *)
(* words that are not empty after trimming, none reordered or duplicated,   *)
(* each starting at its word's start and ending at its word's end, so no    *)
(* caption starts after it ends.                                            *)
C9_CaptionOrder ==
    "subtitles" \in stepsRun =>
        LET n == Len(subtitle_clips)
            spoken == { k \in 1..Len(word_level) : Strip(word_level[k].word) # <<>> }
        IN  /\ \E f \in [1..n -> 1..Len(word_level)] :
                 /\ \A a, b \in 1..n : a < b => f[a] < f[b]
                 /\ \A a \in 1..n :
                      /\ f[a] \in spoken
                      /\ subtitle_clips[a].text = Strip(word_level[f[a]].word)
                      /\ subtitle_clips[a].start = word_level[f[a]].start
                      /\ subtitle_clips[a].start + subtitle_clips[a].duration
                           = word_level[f[a]].end
                      /\ subtitle_clips[a].start
                           <= subtitle_clips[a].start + subtitle_clips[a].duration
            /\ buildFails \cap spoken = {} => n = Cardinality(spoken)

\* three words, the middle one blank: two captions, the later one starting late
C9_Witness ==
    /\ apc = "done"
    /\ Len(word_level) = 3
    /\ Strip(word_level[2].word) = <<>>
    /\ Len(subtitle_clips) = 2
    /\ subtitle_clips[1].text # subtitle_clips[2].text
    /\ subtitle_clips[2].start > 0

(* C10: when the caption of one word fails to build, only that caption is   *)
(* missing: every other non-empty word still has its caption in the video.  *)
C10_OnlyFailedCaptionDropped ==
    "subtitles" \in stepsRun =>
        Len(subtitle_clips) =
            Cardinality({ k \in 1..Len(word_level) :
                            Strip(word_level[k].word) # <<>> /\ k \notin buildFails })

-----------------------------------------------------------------------------
(* Helpers of the properties about generate_reel *)

RunEnded == rpc \in { "returned", "raised" }

\* the video files the client tracked during this run
TrackedVideoFiles ==
    { PathOf(orchestrator, k) : k \in { j \in 1..Len(dlOutcome) : Tracks(dlOutcome[j]) } }

\* the paths of the downloads that succeeded so far, in segment order
SucceededPaths ==
    Subsequence([k \in 1..Len(dlOutcome) |-> PathOf(orchestrator, k)],
                { k \in 1..Len(dlOutcome) : dlOutcome[k] = "ok" })

\* the errors each step can raise
ErrorsOf(stage) ==
    IF stage = "transcribe"
    THEN { "no_file", "no_endpoint", "convert_failed", "export_failed", "service_failed" }
    ELSE IF stage = "assemble" THEN { "no_clips", "assembly_failed" }
    ELSE IF stage = "check" THEN { "no_videos" }
    ELSE {}

(* C11: on every exit of ReelGenerator.generate_reel, by return or by an     *)
(* error raised after the downloads began, the cleanup of the temporary      *)
(* downloaded files has been invoked.                                        *)
C11_CleanupOnEveryExit ==
    (orchestrator = "stock" /\ RunEnded /\ Logged("download", "start"))
        => Logged("cleanup", "start")

(* C12: the working directory VideoAssembler.__init__ created is deleted by  *)
(* the end of every run of generate_reel, on success and on error, in both   *)
(* orchestrators.                                                            *)
C12_TempDirDeleted ==
    RunEnded => temp_dir = "removed"

(* C13: a removal that fails during cleanup is not rethrown: the cleanup     *)
(* tries every tracked file and empties the tracking lists, a successful     *)
(* run returns the produced path, and a failed run raises the error of the   *)
(* step that failed.                                                         *)
C13_CleanupNeverFatal ==
    /\ rpc = "returned" =>
         /\ outcome = [kind |-> "return", value |-> "final_video_path"]
         /\ Logged("cleanup", "done")
    /\ Logged("cleanup", "done") =>
         /\ temp_video_files = <<>>
         /\ whisper_temp_files = <<>>
         /\ TrackedVideoFiles \subseteq attempted
         /\ (WavPath \in disk => WavPath \in attempted)
    /\ rpc = "raised" =>
         /\ outcome.kind = "raise"
         /\ \E k \in 1..Len(stageLog) :
              /\ stageLog[k][2] = "raised"
              /\ outcome.value \in ErrorsOf(stageLog[k][1])

\* a run returned although the first downloaded file could not be removed;
\* the second file was still tried and removed
C13_Witness ==
    /\ rpc = "returned"
    /\ Len(dlOutcome) >= 2
    /\ PathOf(orchestrator, 1) \in disk \cap attempted
    /\ Tracks(dlOutcome[2])
    /\ PathOf(orchestrator, 2) \in attempted \ disk

(* C14: in ReelGenerator.generate_reel the steps run in the order            *)
(* transcription, keyword extraction, selection, download, assembly,         *)
(* cleanup; a step starts only after the previous one completed, nothing     *)
(* starts after a step that raised, and no downloaded file is cleaned up     *)
(* before the assembly has exported.                                         *)
C14_StageOrder ==
    orchestrator = "stock" =>
        /\ Len(stageLog) <= 2 * Len(Stages("stock"))
        /\ \A k \in 1..Len(stageLog) :
             LET stage == Stages("stock")[(k + 1) \div 2]
             IN  IF k % 2 = 1
                 THEN stageLog[k] = <<stage, "start">>
                 ELSE /\ stageLog[k][1] = stage
                      /\ stageLog[k][2] \in { "done", "raised" }
                      /\ stageLog[k][2] = "raised" => k = Len(stageLog)
        /\ (attempted # {} \/ Logged("cleanup", "start")) =>
               (Logged("assemble", "done") /\ outputExported)
        /\ ~Logged("assemble", "done") => TrackedVideoFiles \subseteq disk

\* a complete run: six steps started and completed, files removed at the end
C14_Witness ==
    /\ orchestrator = "stock"
    /\ rpc = "returned"
    /\ Len(stageLog) = 12
    /\ Len(downloaded_files) = 2
    /\ disk = {}

(* C15: if the LLM key, the video-search key or the transcription endpoint   *)
(* is missing, constructing the orchestrator fails before any component is   *)
(* used and before any step of generate_reel starts.                         *)
C15_MissingConfigFailsAtStartup ==
    (orchestrator = "stock"
       /\ ~({ "CO_API_KEY", "PEXELS_API_KEY", "WHISPER_NGROK_URL" } \subseteq environ))
        => /\ rpc \in { "new", "exited" }
           /\ stageLog = <<>>
           /\ temp_dir = "none"

(* C16: when selection with its fallback yields no segment, generate_reel    *)
(* ends with a raised error and nothing is exported; with 1 or 2 segments    *)
(* the run goes on to download and assembly.                                 *)
C16_ZeroSegmentsRaise ==
    (orchestrator = "stock" /\ Logged("search", "done")) =>
        /\ found_segments = <<>> =>
             /\ ~outputExported
             /\ rpc # "returned"
             /\ RunEnded => (outcome.kind = "raise" /\ outcome.value = "no_clips")
        /\ (Len(found_segments) \in 1..2 /\ RunEnded) =>
             /\ Logged("download", "done")
             /\ Logged("assemble", "start")

\* a run whose selection found nothing ended with the assembler's error
C16_Witness ==
    /\ orchestrator = "stock"
    /\ Logged("search", "done")
    /\ found_segments = <<>>
    /\ rpc = "raised"
    /\ Logged("assemble", "raised")

(* C17: download_all_segments does not raise when a download fails; it       *)
(* returns the paths of the downloads that succeeded, in segment order, and  *)
(* the run reaches assembly whenever at least one path remains.              *)
C17_DownloadsFiltered ==
    orchestrator = "stock" =>
        /\ ~Logged("download", "raised")
        /\ downloaded_files = SucceededPaths
        /\ Logged("download", "done") => Len(dlOutcome) = Len(found_segments)
        /\ (RunEnded /\ Logged("download", "done") /\ downloaded_files # <<>>)
               => Logged("assemble", "start")

\* three downloads, the middle one failed: the first and third paths remain
C17_Witness ==
    /\ orchestrator = "stock"
    /\ Logged("download", "done")
    /\ Len(dlOutcome) = 3
    /\ dlOutcome[1] = "ok" /\ dlOutcome[2] # "ok" /\ dlOutcome[3] = "ok"
    /\ downloaded_files = << PathOf("stock", 1), PathOf("stock", 3) >>
    /\ Logged("assemble", "start")

(* C18: whatever the extraction service answers, also nothing or a failure,  *)
(* extract_keywords returns 4 or 5 pairwise distinct keywords, each of 2 to  *)
(* 15 lowercase letters; so the keyword list is never empty.                 *)
C18_KeywordsWellFormed ==
    ext.pc = "returned" =>
        LET kws == ext.keywords
        IN  /\ Len(kws) \in { 4, 5 }
            /\ \A a, b \in 1..Len(kws) : a # b => kws[a] # kws[b]
            /\ \A a \in 1..Len(kws) :
                 /\ Len(kws[a]) >= 2 /\ Len(kws[a]) <= 15
                 /\ \A k \in 1..Len(kws[a]) : kws[a][k] \in Range(LowerChars)

\* an answer of five pieces of which only "office" and "businessman" survive
\* the cleaning: the fallbacks already present are skipped, two others are added
C18_Witness ==
    /\ ext.pc = "returned"
    /\ ext.response.ok
    /\ Len(Split(ext.response.content, ",")) = 5
    /\ Contains(ext.response.content, <<"b","u","s","i","n","e","s","s","m","a","n">>)
    /\ ext.keywords = << <<"o","f","f","i","c","e">>,
                         <<"b","u","s","i","n","e","s","s","m","a","n">>,
                         <<"m","e","e","t","i","n","g">>,
                         <<"p","r","o","f","e","s","s","i","o","n","a","l">> >>

\* s without its k-th element
Without(s, k) == SubSeq(s, 1, k - 1) \o SubSeq(s, k + 1, Len(s))

(* C19: the query _generate_dynamic_query returns for a keyword k holds k    *)
(* as one of its space-separated tokens, next to 2 or 3 distinct context     *)
(* terms and at most one modifier: 3 to 5 tokens in all.                     *)
C19_QueryHoldsKeyword ==
    qry.pc = "returned" =>
        LET tokens == Split(qry.query, " ")
        IN  /\ Len(tokens) \in 3..5
            /\ \E i \in 1..Len(tokens) :
                 /\ tokens[i] = qry.keyword
                 /\ LET others == Without(tokens, i)
                        ctx == { k \in 1..Len(others) : others[k] \in Range(business_contexts) }
                        mods == { k \in 1..Len(others) : others[k] \in Range(industry_modifiers) }
                    IN  /\ ctx \cup mods = 1..Len(others)
                        /\ Cardinality(ctx) \in { 2, 3 }
                        /\ \A a, b \in ctx : a # b => others[a] # others[b]
                        /\ Cardinality(mods) <= 1

\* the keyword "office" next to the context term "office", two more context
\* terms and a modifier, the keyword not in first place
C19_Witness ==
    /\ qry.pc = "returned"
    /\ qry.keyword = <<"o","f","f","i","c","e">>
    /\ LET tokens == Split(qry.query, " ")
       IN  /\ Len(tokens) = 5
           /\ tokens[1] \in Range(industry_modifiers)
           /\ tokens[2] = qry.keyword
           /\ tokens[4] = qry.keyword

\* the video ids held by the segments chosen so far in this call
HeldIds ==
    { video_segments[k].video_id : k \in 1..Len(video_segments) }
    \cup { fallback_videos[k].video_id : k \in 1..Len(fallback_videos) }

(* C20: a fallback segment never carries a video id that an earlier segment  *)
(* of the same call already holds, unless every candidate found for that     *)
(* fallback query is already used.                                           *)
C20_Step ==
    \A videos \in SearchResults :
        (FallbackFound(videos) /\ Len(fallback_videos') = Len(fallback_videos) + 1) =>
            LET segment == fallback_videos'[Len(fallback_videos')]
            IN  segment.video_id \in HeldIds =>
                    \A k \in 1..Len(videos) : videos[k].id \in HeldIds

C20_FallbackDedup == [][C20_Step]_vars

(* C21: the score of a candidate is 2 for every positive term that occurs in *)
(* its lower-cased url-plus-uploader text, minus 3 for every negative term   *)
(* that occurs there, plus 1 exactly when 8 <= duration <= 15; so of two     *)
(* candidates of equal duration, one with a positive and no negative term    *)
(* scores strictly higher than one with no term at all.                      *)
C21_ScoreFormula ==
    sel.pc = "returned" /\ sel.used = {} =>
        /\ Len(sel.scored) = Len(sel.videos)
        /\ \A k \in 1..Len(sel.videos) :
               sel.scored[k] = 2 * Positives(sel.videos[k]) - 3 * Negatives(sel.videos[k])
                               + (IF InGoodRange(sel.videos[k]) THEN 1 ELSE 0)
        /\ \A a, b \in 1..Len(sel.videos) :
               /\ sel.videos[a].duration = sel.videos[b].duration
               /\ Positives(sel.videos[a]) > 0 /\ Negatives(sel.videos[a]) = 0
               /\ Positives(sel.videos[b]) = 0 /\ Negatives(sel.videos[b]) = 0
               => sel.scored[a] > sel.scored[b]

\* two candidates of 15 seconds were scored: one with positive terms only, one
\* with no term
C21_Witness ==
    /\ sel.pc = "returned" /\ sel.used = {}
    /\ \E a, b \in 1..Len(sel.videos) :
          /\ sel.videos[a].duration = 15 /\ sel.videos[b].duration = 15
          /\ Positives(sel.videos[a]) > 0 /\ Negatives(sel.videos[a]) = 0
          /\ Positives(sel.videos[b]) = 0 /\ Negatives(sel.videos[b]) = 0
          /\ sel.scored[b] = 1

(* C22: the candidate _select_best_business_video returns is one of the       *)
(* available candidates, and at most two available candidates have a score   *)
(* strictly greater than its score.                                          *)
C22_AmongTopThree ==
    sel.pc = "returned" =>
        LET available == AvailableVideos(sel.videos, sel.used)
            picked    == sel.picked[1]
        IN  /\ \E k \in 1..Len(available) : available[k] = picked
            /\ Cardinality({ k \in 1..Len(available) :
                                sel.scored[k] > ScoreOf(picked) }) <= TopCount - 1

\* four candidates were available, three different scores among them, and the
\* call returned one that is not the best
C22_Witness ==
    /\ sel.pc = "returned"
    /\ Len(AvailableVideos(sel.videos, sel.used)) = 4
    /\ Cardinality(Range(sel.scored)) = 3
    /\ \E k \in 1..Len(sel.scored) : sel.scored[k] > ScoreOf(sel.picked[1])

(* C23: _select_best_video_file returns nothing exactly when the candidate   *)
(* has no file variant; otherwise it returns one of the candidate's variants, *)
(* a portrait one (height > width) whenever the candidate has a portrait     *)
(* variant, whatever landscape variants it also has.                         *)
C23_PortraitPreferred ==
    fsel.pc = "returned" =>
        /\ fsel.chosen = <<>> <=> fsel.files = <<>>
        /\ fsel.chosen # <<>> =>
              /\ fsel.chosen[1] \in Range(fsel.files)
              /\ (\E f \in Range(fsel.files) : f.height > f.width)
                    => fsel.chosen[1].height > fsel.chosen[1].width

\* the candidate listed an 'hd' landscape variant and a larger landscape
\* variant before its only portrait variant, an 'sd' one, which was returned
C23_Witness ==
    /\ fsel.pc = "returned"
    /\ Len(fsel.files) = 3
    /\ fsel.files[1].link = "l_hd" /\ fsel.files[2].link = "l_big"
    /\ fsel.files[3].link = "p_sd"
    /\ fsel.chosen = << fsel.files[3] >>

(* C24: throughout the keyword loop used_video_ids is the set of video_ids   *)
(* of the segments emitted so far: both start empty, an iteration either     *)
(* leaves both unchanged (no candidate, no variant, an exception) or appends *)
(* one segment and adds its id; every emitted segment takes width, height,   *)
(* url and quality from one variant of the candidate whose id and duration   *)
(* it carries.                                                              *)
C24_Step ==
    /\ pc = "start" => used_video_ids = {} /\ video_segments = <<>>
    /\ pc \in {"start", "loop"} => used_video_ids = SegmentIds(video_segments)
    /\ pc' = "loop" =>
         /\ used_video_ids' = SegmentIds(video_segments')
         /\ used_video_ids \subseteq used_video_ids'
         /\ \A k \in 1..Len(video_segments') : FromOneVariant(video_segments'[k])
    /\ (pc = "loop" /\ kwIndex <= Len(keywords)) =>
         /\ \/ video_segments' = video_segments /\ used_video_ids' = used_video_ids
            \/ \E segment \in Range(video_segments') :
                 /\ video_segments' = Append(video_segments, segment)
                 /\ used_video_ids' = used_video_ids \cup {segment.video_id}
         /\ (KeywordRaises \/ KeywordNoVideos) =>
               video_segments' = video_segments /\ used_video_ids' = used_video_ids
         /\ \A videos \in SearchResults :
              ((\A v \in Range(videos) : v.video_files = <<>>) /\ KeywordFound(videos)) =>
                  video_segments' = video_segments /\ used_video_ids' = used_video_ids

C24_UsedIdsAreEmittedIds == [][C24_Step]_vars

\* three keywords were handled: one was skipped, two emitted segments of
\* different videos, the second of them from the third variant of its video
C24_Witness ==
    /\ pc = "loop" /\ kwIndex = 4
    /\ Len(video_segments) = 2
    /\ Cardinality(used_video_ids) = 2
    /\ video_segments[2].url = "l_hd"

(* C25: every keyword's search request has min_duration equal to the whole   *)
(* seconds of max(6, target_duration / len(keywords)) and max_duration equal *)
(* to min_duration + 5, so min_duration is at least 6; one request is issued *)
(* per keyword handled; 5 keywords and a target of 30 seconds give [6, 11].  *)
C25_SearchWindow ==
    /\ pc = "loop" => Len(KeywordRequests) = kwIndex - 1
    /\ pc \in {"fallback", "done"} => Len(KeywordRequests) = Len(keywords)
    /\ \A k \in 1..Len(KeywordRequests) :
          /\ KeywordRequests[k].min_duration = SlotSeconds
          /\ KeywordRequests[k].max_duration = SlotSeconds + 5
          /\ KeywordRequests[k].min_duration >= 6
          /\ (Len(keywords) = 5 /\ search_target = 30) =>
                /\ KeywordRequests[k].min_duration = 6
                /\ KeywordRequests[k].max_duration = 11

\* three keywords and a target of 35 seconds: all three requests were issued
\* with the window [11, 16]
C25_Witness ==
    /\ pc = "done"
    /\ Len(keywords) = 3 /\ search_target = 35
    /\ Len(KeywordRequests) = 3
    /\ KeywordRequests[3].min_duration = 11 /\ KeywordRequests[3].max_duration = 16

(* C26: in the result the labels of the keyword segments are the keyword     *)
(* list with some entries left out (input order, at most one segment per     *)
(* keyword occurrence), and no keyword segment comes after a fallback        *)
(* segment.                                                                 *)
C26_KeywordOrder ==
    pc = "done" =>
        /\ IsSubsequenceOf(LabelsOf(KeywordSegments(result)), keywords)
        /\ \A a, b \in 1..Len(result) :
              (a < b /\ IsFallbackSegment(result[a])) => IsFallbackSegment(result[b])

\* of four keywords the second and the fourth got a segment; two fallback
\* segments follow them
C26_Witness ==
    /\ pc = "done"
    /\ Len(keywords) = 4
    /\ LabelsOf(result) = << keywords[2], keywords[4], "fallback_1", "fallback_3" >>

(* C27: when create_final_reel returns, the concatenated video holds one     *)
(* fitted clip per input file, in input order, each as long as its slot      *)
(* total_duration / n, so the video lasts total_duration; an input clip that *)
(* fails to process makes the call raise. (A fitted clip's duration is       *)
(* counted in units of 1/n tick, in which the slot is total_duration.)       *)
C27_OneClipPerFile ==
    apc = "done" =>
        /\ Len(processed_clips) = Len(video_files)
        /\ \A k \in 1..Len(processed_clips) :
              /\ processed_clips[k].source = k
              /\ processed_clips[k].duration = total_duration
        /\ concatenated = Len(video_files) * total_duration
        /\ \A k \in 1..Len(video_files) : video_files[k].readable

(* C28: once _add_audio_layers has run, the audio attached to the video is   *)
(* never longer than the video, and it is exactly as long as the video when  *)
(* there is background music or when the original audio is at least as long  *)
(* as the video.                                                            *)
C28_AudioFitsVideo ==
    "audio" \in stepsRun =>
        /\ audio_duration <= concatenated
        /\ (background.present \/ narration >= concatenated) =>
              audio_duration = concatenated

\* a background track shorter than the video was looped under an original
\* audio that is shorter than the video too
C28_Witness ==
    /\ "audio" \in stepsRun
    /\ background.present
    /\ background.duration < concatenated /\ narration < concatenated
    /\ concatenated > 2 * background.duration
    /\ audio_duration = concatenated

(* C29: for every response and every target duration the sequence that       *)
(* _validate_and_clean_prompts returns holds at least 6 prompts, with ids    *)
(* 1, 2, 3, ... in order, so the clip plan is never empty.                   *)
C29_AtLeastSixPrompts ==
    pgen.pc = "returned" =>
        /\ Len(pgen.result) >= 6
        /\ \A k \in 1..Len(pgen.result) : pgen.result[k].id = k

(* C30: every file download_video_segment leaves on disk is recorded in      *)
(* temp_video_files, also after a download that failed while writing or      *)
(* wrote an empty file, so that once cleanup() has run no file of the client *)
(* is left on disk and temp_video_files is empty.                            *)
C30_CreatedFilesTracked ==
    orchestrator = "stock" =>
        /\ ~Logged("cleanup", "done") =>
              \A k \in 1..Len(dlOutcome) :
                  PathOf("stock", k) \in disk =>
                      PathOf("stock", k) \in Range(temp_video_files)
        /\ Logged("cleanup", "done") =>
              /\ temp_video_files = <<>>
              /\ \A k \in 1..Len(dlOutcome) : PathOf("stock", k) \notin disk

====
